---------------------------- MODULE Spec2Model ----------------------------
(***************************************************************************)
(* A model of prongbang/excelmetadata: the Extractor that walks a workbook *)
(* (sheets, cells, styles) into a Metadata value, the cell scanner with    *)
(* its per-sheet cap, the style deduplicator, the literal-reconstruction   *)
(* (Go source) encoder and the extension dispatch of ExtractToFile.        *)
(*                                                                         *)
(* The spreadsheet parser (excelize) is an external collaborator: the      *)
(* workbook is a value `file` fixed at construction, and each query of the *)
(* parser is an operator over it that returns [err, v].                    *)
(***************************************************************************)
EXTENDS Integers, Sequences, FiniteSets, TLC

VARIABLES
    file,       \* Extractor.file and Extractor.filename: the opened workbook
    now,        \* what time.Now() returns
    options,    \* Extractor.options
    pc,         \* position of the running operation
    idx,        \* Extract: index (0-based) of the next sheet of the loop
    metadata,   \* Extract: the Metadata being built
    decoded,    \* history: the style ids passed to GetStyle, in call order
    scan,       \* the result of one extractCellData call
    goOut,      \* ExtractToGO: the calls that returned, each with the Metadata
                \* it encoded, the tree of the literal and the text returned
    call,       \* ExtractToFile: outputPath, pretty and the ext it computed
    fsys,       \* the directories made, the files written and the calls of
                \* MkdirAll and WriteFile, each in order
    ret,        \* ExtractToFile: the error returned, as the pieces of its text
    handle,     \* the source handle: its state and how often it was opened, closed
    quick,      \* the Quick* call in progress and what it returned
    jsonOut,    \* ExtractToJSON: the calls that returned, each with the Metadata
                \* it encoded, the pretty flag and the text returned
    queried,    \* history: the picture queries Extract issued, in call order
    runs,       \* the Extract runs of further Extractor instances, each with its
                \* own file, options, position, Metadata and style cache
    cmd,        \* the command-line program: its flags and arguments, how far the
                \* handler got, what it printed and the error it returned
    results     \* history: the Metadata the Extract calls of the caller returned

vars ==
    <<file, now, options, pc, idx, metadata, decoded, scan, goOut, call, fsys, ret,
      handle, quick, jsonOut, queried, runs, cmd, results>>

-----------------------------------------------------------------------------
(* Bounds of the model *)

MaxRows == 2
MaxCols == 2
MaxCap == 2
MaxSheets == 2

-----------------------------------------------------------------------------
(* The workbook as the parser reports it *)

\* One cell position of a used row: what GetRows reports as its value, and
\* what the per-address queries report for it.
\* A cell of the source sheet; fails names the queries that return an error
\* for its address
SrcCell(value, formula, style, type, link) ==
    [value |-> value, formula |-> formula, style |-> style, type |-> type, link |-> link,
     fails |-> {}]

BlankStyled == SrcCell("", "F1", 1, 0, "http://l")
Plain == SrcCell("x", "", 0, 3, "")
Rich == SrcCell("y", "F2", 1, 2, "http://m")
Other == SrcCell("z", "", 2, 3, "")

NoError == "nil"

Ok(v) == [err |-> NoError, v |-> v]
Fail(e) == [err |-> e, v |-> <<>>]

SeqsUpTo(S, n) == UNION {[1..k -> S] : k \in 0..n}

RECURSIVE ColumnNumberToName(_)
Letters == <<"A", "B", "C", "D", "E", "F", "G", "H", "I", "J", "K", "L", "M",
             "N", "O", "P", "Q", "R", "S", "T", "U", "V", "W", "X", "Y", "Z">>
ColumnNumberToName(num) ==
    IF num < 1 THEN ""
    ELSE (IF num > 26 THEN ColumnNumberToName((num - 1) \div 26) ELSE "")
         \o Letters[((num - 1) % 26) + 1]

\* col, _ := excelize.ColumnNumberToName(colIdx + 1); fmt.Sprintf("%s%d", col, rowIdx+1)
cellAddrSwapped(rowIdx, colIdx) == ColumnNumberToName(rowIdx + 1) \o ToString(colIdx + 1)
cellAddr(rowIdx, colIdx) == ColumnNumberToName(colIdx + 1) \o ToString(rowIdx + 1)

\* e.file.GetRows(sheetName): the values of the used rows, row-major
GetRows(sheet) ==
    IF sheet.rowsErr THEN Fail("rows")
    ELSE Ok([r \in 1..Len(sheet.rows) |->
                [c \in 1..Len(sheet.rows[r]) |-> sheet.rows[r][c].value]])

\* The source cell a query by (rowIdx, colIdx) addresses
At(sheet, rowIdx, colIdx) == sheet.rows[rowIdx + 1][colIdx + 1]

GetCellFormula(sheet, rowIdx, colIdx) ==
    LET cell == At(sheet, rowIdx, colIdx) IN
    IF "GetCellFormula" \in cell.fails THEN Fail("formula") ELSE Ok(cell.formula)
GetCellStyle(sheet, rowIdx, colIdx) ==
    LET cell == At(sheet, rowIdx, colIdx) IN
    IF "GetCellStyle" \in cell.fails THEN Fail("style") ELSE Ok(cell.style)
GetCellType(sheet, rowIdx, colIdx) ==
    LET cell == At(sheet, rowIdx, colIdx) IN
    IF "GetCellType" \in cell.fails THEN Fail("type") ELSE Ok(cell.type)
GetCellHyperLink(sheet, rowIdx, colIdx) ==
    LET cell == At(sheet, rowIdx, colIdx) IN
    IF "GetCellHyperLink" \in cell.fails THEN Fail("hyperlink")
    ELSE Ok([link |-> cell.link # "", target |-> cell.link])

-----------------------------------------------------------------------------
(* extractCellData: the cell scanner *)

NilPtr == [isNil |-> TRUE]
Ptr(x) == [isNil |-> FALSE, v |-> x]

\* if value == "" { continue }
skipCellNever(value) == FALSE
skipCell(value) == value = ""

\* if e.options.MaxCellsPerSheet > 0 && cellCount >= e.options.MaxCellsPerSheet
capReachedLate(max, cellCount) == max > 0 /\ cellCount > max
capReached(max, cellCount) == max > 0 /\ cellCount >= max

\* The four per-address queries of one non-empty cell, in the code's order
cellQueries(rowIdx, colIdx) ==
    [i \in 1..4 |-> [op |-> <<"GetCellFormula", "GetCellStyle", "GetCellType",
                               "GetCellHyperLink">>[i],
                     addr |-> cellAddr(rowIdx, colIdx)]]

\* The CellMetadata of one non-empty cell
cellMeta(sheet, rowIdx, colIdx, value) ==
    LET formula == GetCellFormula(sheet, rowIdx, colIdx)
        styleID == GetCellStyle(sheet, rowIdx, colIdx)
        cellType == GetCellType(sheet, rowIdx, colIdx)
        hl == GetCellHyperLink(sheet, rowIdx, colIdx)
    IN  [Address |-> cellAddr(rowIdx, colIdx),
         Value |-> value,
         Formula |-> IF formula.err = NoError /\ formula.v # "" THEN formula.v ELSE "",
         StyleID |-> IF styleID.err = NoError THEN styleID.v ELSE 0,
         Type |-> IF cellType.err = NoError THEN cellType.v ELSE 0,
         Hyperlink |-> IF hl.err = NoError /\ hl.v.link THEN Ptr([Link |-> hl.v.target])
                       ELSE NilPtr]

\* The two nested range loops, from position (rowIdx, colIdx) on.  acc carries
\* cells, cellCount, the queries issued and the positions records came from.
RECURSIVE scanFrom(_, _, _, _, _, _)
scanFrom(sheet, rows, max, rowIdx, colIdx, acc) ==
    IF rowIdx >= Len(rows) THEN acc
    ELSE IF colIdx >= Len(rows[rowIdx + 1]) THEN scanFrom(sheet, rows, max, rowIdx + 1, 0, acc)
    ELSE LET value == rows[rowIdx + 1][colIdx + 1] IN
         IF skipCell(value) THEN scanFrom(sheet, rows, max, rowIdx, colIdx + 1, acc)
         ELSE IF capReached(max, acc.cellCount) THEN acc
         ELSE scanFrom(sheet, rows, max, rowIdx, colIdx + 1,
                       [cells |-> Append(acc.cells, cellMeta(sheet, rowIdx, colIdx, value)),
                        cellCount |-> acc.cellCount + 1,
                        queries |-> acc.queries \o cellQueries(rowIdx, colIdx),
                        from |-> Append(acc.from, <<rowIdx, colIdx>>)])

extractCellData(sheet, max) ==
    LET rows == GetRows(sheet) IN
    IF rows.err # NoError
    THEN [err |-> rows.err, cells |-> <<>>, queries |-> <<>>, from |-> <<>>]
    ELSE LET r == scanFrom(sheet, rows.v, max, 0, 0,
                           [cells |-> <<>>, cellCount |-> 0, queries |-> <<>>, from |-> <<>>])
         IN  [err |-> NoError, cells |-> r.cells, queries |-> r.queries, from |-> r.from]

-----------------------------------------------------------------------------
(* getSheetDimensions, extractSheetMetadata *)

ZeroDimensions == [StartCell |-> "", EndCell |-> "", RowCount |-> 0, ColCount |-> 0]

RECURSIVE maxLen(_, _, _)
\* for _, row := range rows { if len(row) > maxColCount { maxColCount = len(row) } }
maxLen(rows, i, maxColCount) ==
    IF i > Len(rows) THEN maxColCount
    ELSE maxLen(rows, i + 1, IF Len(rows[i]) > maxColCount THEN Len(rows[i]) ELSE maxColCount)

\* The test of the empty sheet looking at the rows only
emptyRowsOnly(rowCount, maxColCount) == rowCount = 0
\* if rowCount == 0 || maxColCount == 0
emptySheet(rowCount, maxColCount) == rowCount = 0 \/ maxColCount = 0

getSheetDimensions(sheet) ==
    LET rows == GetRows(sheet) IN
    IF rows.err # NoError THEN [err |-> rows.err, v |-> ZeroDimensions]
    ELSE LET rowCount == Len(rows.v)
             maxColCount == maxLen(rows.v, 1, 0)
         IN  IF emptySheet(rowCount, maxColCount)
             THEN Ok([StartCell |-> "A1", EndCell |-> "A1", RowCount |-> 0, ColCount |-> 0])
             ELSE Ok([StartCell |-> "A1",
                      EndCell |-> ColumnNumberToName(maxColCount) \o ToString(rowCount),
                      RowCount |-> rowCount,
                      ColCount |-> maxColCount])

\* e.file.GetSheetVisible, GetMergeCells, GetDataValidations, GetCols, GetColWidth
GetSheetVisible(sheet) == Ok(sheet.visible)
GetMergeCells(sheet) == Ok(sheet.merged)
GetDataValidations(sheet) == Ok(sheet.dvs)
GetCols(sheet) ==
    IF sheet.rowsErr THEN Fail("cols")
    ELSE Ok([c \in 1..maxLen(sheet.rows, 1, 0) |-> c])

\* Widths are float64 in the code; the model counts them in 1/64 (9.140625 = 585/64)
DefaultColWidth == 585
GetColWidth(sheet, colNum) ==
    Ok(IF colNum <= Len(sheet.widths) THEN sheet.widths[colNum] ELSE DefaultColWidth)

EmptyMap == [k \in {} |-> 0]
MapPut(m, k, v) == [x \in DOMAIN m \cup {k} |-> IF x = k THEN v ELSE m[x]]

RECURSIVE colWidths(_, _, _, _)
\* for idx := range cols { ...; if width != 9.140625 { sheet.ColWidths[col] = width } }
colWidths(sheet, n, i, acc) ==
    IF i > n THEN acc
    ELSE LET col == ColumnNumberToName(i)
             width == GetColWidth(sheet, i).v
         IN  colWidths(sheet, n, i + 1,
                       IF width # DefaultColWidth THEN MapPut(acc, col, width) ELSE acc)

\* sheet.MergedCells = append(sheet.MergedCells, MergedCell{...})
mergedCell(mc) == [StartCell |-> mc.start, EndCell |-> mc.end, Value |-> mc.value]

\* sheet.DataValidations = append(sheet.DataValidations, DataValidation{...})
dataValidation(dv) ==
    [Range |-> dv.Sqref, Type |-> dv.Type, Operator |-> dv.Operator,
     Formula1 |-> dv.Formula1, Formula2 |-> dv.Formula2,
     ShowError |-> dv.ShowErrorMessage,
     ErrorTitle |-> dv.ErrorTitle, ErrorMessage |-> dv.Error]

\* e.file.GetPictureCells, e.file.GetPictures
GetPictureCells(sheet) == Ok([i \in 1..Len(sheet.pics) |-> sheet.pics[i].cell])
GetPictures(sheet, i) ==
    IF sheet.pics[i].err THEN Fail("pictures") ELSE Ok(sheet.pics[i].pictures)

imageFormat(f) ==
    [AltText |-> f.AltText, PrintObject |-> f.PrintObject, Locked |-> f.Locked,
     LockAspectRatio |-> f.LockAspectRatio, AutoFit |-> f.AutoFit,
     AutoFitIgnoreAspect |-> f.AutoFitIgnoreAspect,
     OffsetX |-> f.OffsetX, OffsetY |-> f.OffsetY, ScaleX |-> f.ScaleX, ScaleY |-> f.ScaleY,
     Hyperlink |-> f.Hyperlink, HyperlinkType |-> f.HyperlinkType,
     Positioning |-> f.Positioning]

imageMetadata(cellAddress, picture) ==
    [Cell |-> cellAddress, File |-> picture.File, Extension |-> picture.Extension,
     InsertType |-> picture.InsertType,
     Format |-> IF picture.Format.isNil THEN NilPtr ELSE Ptr(imageFormat(picture.Format.v))]

\* A failure that would end the loop over the addresses
nextAddressNone(cells, i) == Len(cells) + 1
\* if err != nil { continue }
nextAddress(cells, i) == i + 1

RECURSIVE imagesFrom(_, _, _, _)
\* for _, cellAddr := range cellAddress { pictures, err := ...; if err != nil { continue } ... }
imagesFrom(sheet, cells, i, images) ==
    IF i > Len(cells) THEN images
    ELSE LET pictures == GetPictures(sheet, i) IN
         IF pictures.err # NoError THEN imagesFrom(sheet, cells, nextAddress(cells, i), images)
         ELSE imagesFrom(sheet, cells, i + 1,
                         images \o [k \in 1..Len(pictures.v) |->
                                       imageMetadata(cells[i], pictures.v[k])])

extractImages(sheet) ==
    LET cellAddress == GetPictureCells(sheet) IN
    IF cellAddress.err # NoError THEN <<>>
    ELSE imagesFrom(sheet, cellAddress.v, 1, <<>>)

\* The picture queries one extractImages call issues: GetPictureCells, then
\* GetPictures for each cell it returned
pictureQueries(sheet) ==
    LET cellAddress == GetPictureCells(sheet) IN
    <<[query |-> "GetPictureCells", sheet |-> sheet.name, cell |-> ""]>> \o
    (IF cellAddress.err # NoError THEN <<>>
     ELSE [i \in 1..Len(cellAddress.v) |->
              [query |-> "GetPictures", sheet |-> sheet.name, cell |-> cellAddress.v[i]]])

\* The test that extracts images whatever the options say
wantImagesAlways(opts) == TRUE
\* if e.options.IncludeImages
wantImages(opts) == opts.IncludeImages

\* Every failure inside is handled in place: the error returned is always nil.
extractSheetMetadata(index, sheet, opts) ==
    LET visible == GetSheetVisible(sheet)
        dimensions == getSheetDimensions(sheet)
        mergedCells == GetMergeCells(sheet)
        dvs == GetDataValidations(sheet)
        cols == GetCols(sheet)
        cells == extractCellData(sheet, opts.MaxCellsPerSheet)
    IN  [err |-> NoError,
         queries |-> IF wantImages(opts) THEN pictureQueries(sheet) ELSE <<>>,
         sheet |-> [Index |-> index,
                    Name |-> sheet.name,
                    Visible |-> visible.v,
                    Dimensions |-> IF dimensions.err = NoError THEN dimensions.v
                                   ELSE ZeroDimensions,
                    MergedCells |-> IF mergedCells.err = NoError
                                    THEN [i \in 1..Len(mergedCells.v) |->
                                             mergedCell(mergedCells.v[i])]
                                    ELSE <<>>,
                    DataValidations |-> IF opts.IncludeDataValidation /\ dvs.err = NoError
                                        THEN [i \in 1..Len(dvs.v) |-> dataValidation(dvs.v[i])]
                                        ELSE <<>>,
                    Protection |-> NilPtr,
                    RowHeights |-> EmptyMap,
                    ColWidths |-> colWidths(sheet, Len(cols.v), 1, EmptyMap),
                    Cells |-> IF opts.IncludeCellData /\ cells.err = NoError THEN cells.cells
                              ELSE <<>>,
                    Images |-> IF wantImages(opts) THEN extractImages(sheet) ELSE <<>>]]

-----------------------------------------------------------------------------
(* extractStyleDetails, extractUniqueStyles: the style deduplicator *)

\* What GetStyle reports for a style id (an excelize.Style)
StyleTable(styleID) ==
    [NumFmt |-> styleID,
     Font |-> IF styleID = 1
              THEN Ptr([Bold |-> TRUE, Italic |-> FALSE, Underline |-> "single",
                        Strike |-> FALSE, Family |-> "Arial", Size |-> 704,
                        Color |-> "FF0000"])
              ELSE NilPtr,
     Fill |-> [Type |-> "pattern", Pattern |-> 1,
               Color |-> IF styleID = 2 THEN <<"FFFF00">> ELSE <<>>],
     Border |-> IF styleID = 2 THEN <<[Type |-> "left", Color |-> "000000", Style |-> 1]>>
                ELSE <<>>,
     Alignment |-> IF styleID = 2
                   THEN Ptr([Horizontal |-> "center", Vertical |-> "", WrapText |-> TRUE,
                             TextRotation |-> 0, Indent |-> 0, ShrinkToFit |-> FALSE])
                   ELSE NilPtr,
     Protection |-> IF styleID = 1 THEN Ptr([Hidden |-> FALSE, Locked |-> TRUE]) ELSE NilPtr]

GetStyle(f, styleID) ==
    IF styleID \in f.styleErr THEN Fail("style") ELSE Ok(StyleTable(styleID))

extractStyleDetails(f, styleID) ==
    LET style == GetStyle(f, styleID) IN
    IF style.err # NoError THEN Fail(style.err)
    ELSE Ok([Font |-> IF style.v.Font.isNil THEN NilPtr
                      ELSE Ptr([Bold |-> style.v.Font.v.Bold,
                                Italic |-> style.v.Font.v.Italic,
                                Underline |-> style.v.Font.v.Underline,
                                Strike |-> style.v.Font.v.Strike,
                                Family |-> style.v.Font.v.Family,
                                Size |-> style.v.Font.v.Size,
                                Color |-> style.v.Font.v.Color]),
             Fill |-> IF Len(style.v.Fill.Color) > 0
                      THEN Ptr([Type |-> style.v.Fill.Type, Pattern |-> style.v.Fill.Pattern,
                                Color |-> style.v.Fill.Color])
                      ELSE NilPtr,
             Border |-> [i \in 1..Len(style.v.Border) |->
                            [Type |-> style.v.Border[i].Type,
                             Color |-> style.v.Border[i].Color,
                             Style |-> style.v.Border[i].Style]],
             Alignment |-> IF style.v.Alignment.isNil THEN NilPtr
                           ELSE Ptr([Horizontal |-> style.v.Alignment.v.Horizontal,
                                     Vertical |-> style.v.Alignment.v.Vertical,
                                     WrapText |-> style.v.Alignment.v.WrapText,
                                     TextRotation |-> style.v.Alignment.v.TextRotation,
                                     Indent |-> style.v.Alignment.v.Indent,
                                     ShrinkToFit |-> style.v.Alignment.v.ShrinkToFit]),
             NumberFormat |-> style.v.NumFmt,
             Protection |-> IF style.v.Protection.isNil THEN NilPtr
                            ELSE Ptr([Hidden |-> style.v.Protection.v.Hidden,
                                      Locked |-> style.v.Protection.v.Locked])])

\* processedStyles[styleID] = true sits inside the err == nil branch
markProcessed(processed, styleID, err) ==
    IF err = NoError THEN processed \cup {styleID} ELSE processed

\* The test taking every style id, 0 included
explicitStyleAny(styleID) == TRUE
\* err == nil && styleID != 0
explicitStyle(styleID) == styleID # 0

\* The test storing whatever the decoder returned
styleDecodedAlways(err) == TRUE
\* if style, err := e.extractStyleDetails(styleID); err == nil
styleDecoded(err) == err = NoError

\* One cell position of the style scan.  acc: styles, processed, decoded.
styleStep(f, sheet, rowIdx, colIdx, acc) ==
    LET styleID == GetCellStyle(sheet, rowIdx, colIdx) IN
    IF styleID.err = NoError /\ explicitStyle(styleID.v) /\ styleID.v \notin acc.processed
    THEN LET style == extractStyleDetails(f, styleID.v) IN
         [styles |-> IF styleDecoded(style.err) THEN MapPut(acc.styles, styleID.v, style.v)
                     ELSE acc.styles,
          processed |-> markProcessed(acc.processed, styleID.v, style.err),
          decoded |-> Append(acc.decoded, styleID.v)]
    ELSE acc

\* A scan of the first position of each row only
rangeOfRowFirst(row) == IF Len(row) > 0 THEN 1 ELSE 0
\* for colIdx := range row: every position of the row
rangeOfRow(row) == Len(row)

RECURSIVE stylesFromCells(_, _, _, _, _, _)
stylesFromCells(f, sheet, rows, rowIdx, colIdx, acc) ==
    IF rowIdx >= Len(rows) THEN acc
    ELSE IF colIdx >= rangeOfRow(rows[rowIdx + 1])
         THEN stylesFromCells(f, sheet, rows, rowIdx + 1, 0, acc)
         ELSE stylesFromCells(f, sheet, rows, rowIdx, colIdx + 1,
                              styleStep(f, sheet, rowIdx, colIdx, acc))

RECURSIVE stylesFromSheets(_, _, _)
stylesFromSheets(f, k, acc) ==
    IF k > Len(f.sheets) THEN acc
    ELSE LET rows == GetRows(f.sheets[k]) IN
         IF rows.err # NoError THEN stylesFromSheets(f, k + 1, acc)
         ELSE stylesFromSheets(f, k + 1, stylesFromCells(f, f.sheets[k], rows.v, 0, 0, acc))

extractUniqueStyles(f) ==
    stylesFromSheets(f, 1, [styles |-> EmptyMap, processed |-> {}, decoded |-> <<>>])

-----------------------------------------------------------------------------
(* Extract: one run over a workbook *)

\* Properties with a field left over from a read that failed
StaleProperties ==
    [Title |-> "Report", Subject |-> "", Creator |-> "", Keywords |-> "", Description |-> "",
     LastModifiedBy |-> "", Category |-> "", Version |-> "", Created |-> "", Modified |-> ""]

\* DocumentProperties{}
ZeroProperties ==
    [Title |-> "", Subject |-> "", Creator |-> "", Keywords |-> "", Description |-> "",
     LastModifiedBy |-> "", Category |-> "", Version |-> "", Created |-> "", Modified |-> ""]

\* e.file.GetDocProps, e.file.GetDefinedName
GetDocProps(f) == IF f.propsErr THEN Fail("props") ELSE Ok(f.props)
GetDefinedName(f) == f.definedNames

extractDocumentProperties(f) ==
    LET props == GetDocProps(f) IN
    IF props.err # NoError THEN [err |-> props.err, v |-> ZeroProperties]
    ELSE Ok([Title |-> props.v.Title, Subject |-> props.v.Subject,
             Creator |-> props.v.Creator, Keywords |-> props.v.Keywords,
             Description |-> props.v.Description,
             LastModifiedBy |-> props.v.LastModifiedBy, Category |-> props.v.Category,
             Version |-> props.v.Version, Created |-> props.v.Created,
             Modified |-> props.v.Modified])

extractDefinedNames(f) ==
    LET definedNames == GetDefinedName(f) IN
    [i \in 1..Len(definedNames) |->
        [Name |-> definedNames[i].Name, RefersTo |-> definedNames[i].RefersTo,
         Scope |-> definedNames[i].Scope]]

\* A time.Time: the instant in hours since 2024-01-01T00:00Z, and the offset
\* of its location in hours east of UTC.  time.Now() is in the local zone.
Time(utc, offset) == [utc |-> utc, offset |-> offset]
ZeroTime == Time(0, 0)

NoScan == [err |-> "none", cells |-> <<>>, queries |-> <<>>, from |-> <<>>]
NoMetadata ==
    [Filename |-> "", Properties |-> ZeroProperties, Sheets |-> <<>>,
     DefinedNames |-> <<>>, Styles |-> EmptyMap, ExtractedAt |-> ZeroTime]

\* A sheet of the workbook with nothing but its rows
RowsSheet(name, rows, rowsErr) ==
    [name |-> name, rows |-> rows, rowsErr |-> rowsErr, visible |-> TRUE,
     merged |-> <<>>, dvs |-> <<>>, widths |-> <<>>, pics |-> <<>>]

DocProps ==
    [Title |-> "Report", Subject |-> "", Creator |-> "xuri", Keywords |-> "",
     Description |-> "", LastModifiedBy |-> "", Category |-> "", Version |-> "",
     Created |-> "2024-01-01T00:00:00Z", Modified |-> ""]

\* An opened workbook: its sheets, and the style ids GetStyle fails for
Workbook(sheets, styleErr) ==
    [filename |-> "sample.xlsx", sheets |-> sheets, styleErr |-> styleErr,
     propsErr |-> FALSE, props |-> DocProps,
     definedNames |-> <<[Name |-> "SalesRange", RefersTo |-> "Sheet1!$A$1:$B$2",
                         Scope |-> "Workbook"]>>]

\* The sheets a workbook of the model is made of
SheetPool ==
    { <<>>,
      << <<>> >>,
      << <<>>, <<>> >>,
      << <<Rich, Rich>> >>,
      << <<Plain, BlankStyled>>, <<Other>> >>,
      << <<Rich>>, <<BlankStyled, Other, Rich>> >> }

SheetName(i) == "Sheet" \o ToString(i)

Workbooks ==
    UNION { { Workbook([i \in 1..n |-> RowsSheet(SheetName(i), g[i], e[i])], se) :
              g \in [1..n -> SheetPool], e \in [1..n -> BOOLEAN], se \in SUBSET {1, 2} } :
            n \in 0..MaxSheets }

AllOptions ==
    [IncludeCellData : BOOLEAN, IncludeStyles : BOOLEAN, IncludeImages : {TRUE},
     IncludeDefinedNames : {TRUE}, IncludeDataValidation : {TRUE},
     MaxCellsPerSheet : 0..MaxCap]

\* DefaultOptions()
DefaultOptions ==
    [IncludeCellData |-> TRUE, IncludeStyles |-> TRUE, IncludeImages |-> TRUE,
     IncludeDefinedNames |-> TRUE, IncludeDataValidation |-> TRUE, MaxCellsPerSheet |-> 0]

NoCmd == [stage |-> "none", flags |-> <<>>, stdout |-> <<>>, err |-> <<>>]
NoCall == [path |-> <<>>, pretty |-> FALSE, ext |-> ""]
EmptyDisk == [dirs |-> <<>>, files |-> <<>>, ops |-> <<>>]

\* The handle before excelize.OpenFile, and after New returned an Extractor
NoHandle == [state |-> "none", opens |-> 0, closes |-> 0]
OpenHandle == [state |-> "open", opens |-> 1, closes |-> 0]
NoQuick == [fn |-> "none", pretty |-> FALSE, openErr |-> FALSE, err |-> <<>>, value |-> <<>>]

Idle ==
    /\ pc = "idle"
    /\ idx = 0
    /\ metadata = NoMetadata
    /\ decoded = <<>>
    /\ scan = NoScan
    /\ goOut = <<>>
    /\ call = NoCall
    /\ fsys = EmptyDisk
    /\ ret = <<>>
    /\ handle = OpenHandle
    /\ quick = NoQuick
    /\ jsonOut = <<>>
    /\ queried = <<>>
    /\ runs = <<>>
    /\ cmd = NoCmd
    /\ results = <<>>

Init ==
    /\ file \in Workbooks
    /\ options \in AllOptions
    /\ now = Time(10, 0)
    /\ Idle

\* The sheet records of the call before, kept
newSheetsKept(previous) == previous.Sheets
\* Sheets: []SheetMetadata{} of the Metadata the call makes
newSheets(previous) == <<>>

\* metadata := &Metadata{...}; document properties; defined names; GetSheetList
ExtractBegin ==
    /\ pc = "idle"
    /\ LET props == extractDocumentProperties(file) IN
       metadata' = [Filename |-> file.filename,
                    Properties |-> IF props.err = NoError THEN props.v ELSE ZeroProperties,
                    Sheets |-> newSheets(metadata),
                    DefinedNames |-> IF options.IncludeDefinedNames
                                     THEN extractDefinedNames(file) ELSE <<>>,
                    Styles |-> EmptyMap,
                    ExtractedAt |-> now]
    /\ idx' = 0
    /\ pc' = "sheets"
    /\ UNCHANGED <<results, cmd, runs, queried, file, options, now, decoded, scan, goOut, call, fsys, ret, handle, quick, jsonOut>>

\* An index counting the sheets from one
rangeIndexFromOne(i) == i + 1
\* for idx, sheetName := range sheets: idx is the zero-based position in the list
rangeIndex(i) == i

\* One iteration of: for idx, sheetName := range sheets
ExtractSheet ==
    /\ pc = "sheets"
    /\ idx < Len(file.sheets)
    /\ LET r == extractSheetMetadata(rangeIndex(idx), file.sheets[idx + 1], options) IN
       /\ metadata' = IF r.err # NoError THEN metadata
                       ELSE [metadata EXCEPT !.Sheets = Append(@, r.sheet)]
       /\ queried' = queried \o r.queries
    /\ idx' = idx + 1
    /\ UNCHANGED <<results, cmd, runs, file, options, now, pc, decoded, scan, goOut, call, fsys, ret, handle, quick, jsonOut>>

\* if e.options.IncludeStyles { metadata.Styles = e.extractUniqueStyles() }; return
ExtractStyles ==
    /\ pc = "sheets"
    /\ idx = Len(file.sheets)
    /\ LET r == extractUniqueStyles(file) IN
       IF options.IncludeStyles
       THEN /\ metadata' = [metadata EXCEPT !.Styles = r.styles]
            /\ decoded' = r.decoded
       ELSE UNCHANGED <<metadata, decoded>>
    /\ pc' = "done"
    /\ UNCHANGED <<results, cmd, runs, queried, file, options, now, idx, scan, goOut, call, fsys, ret, handle, quick, jsonOut>>

Next == ExtractBegin \/ ExtractSheet \/ ExtractStyles

Spec == Init /\ [][Next]_vars

-----------------------------------------------------------------------------
(* ExtractToGO: the literal-reconstruction encoder marshalGo *)

(* marshalGo returns text.  The model keeps the text as the tree of the     *)
(* pieces it is concatenated from, one node per piece, in the order of      *)
(* concatenation; goText renders a tree to the characters the code returns. *)
NilLit == [k |-> "nil"]
BoolLit(b) == [k |-> "bool", b |-> b]
IntLit(n) == [k |-> "int", n |-> n]
FloatLit(x) == [k |-> "float", x |-> x]
Quoted(str) == [k |-> "quoted", s |-> str]
Verbatim(str) == [k |-> "verbatim", s |-> str]
ByteSlice(bs) == [k |-> "bytes", bs |-> bs]
ByteLit(b) == [k |-> "byte", b |-> b]
CellTypeLit(n) == [k |-> "celltype", n |-> n]
DateCall(args, loc) == [k |-> "date", args |-> args, loc |-> loc]
Addr(e) == [k |-> "addr", e |-> e]
Comp(type, fields) == [k |-> "comp", type |-> type, fields |-> fields]
SliceLit(type, elems, inline) ==
    [k |-> "slice", type |-> type, elems |-> elems, inline |-> inline]
MapLit(type, entries, inline) ==
    [k |-> "map", type |-> type, entries |-> entries, inline |-> inline]

\* The fields each struct case of marshalGo emits, in order, with the type
\* of the value handed to the recursive call.  CellMetadata.Type and
\* ImageMetadata.InsertType are formatted in place, not by a recursive call.
MarshalFields(t) ==
    CASE t = "StyleDetails" ->
           << <<"Font", "*FontStyle">>, <<"Fill", "*FillStyle">>,
              <<"Border", "[]BorderStyle">>, <<"Alignment", "*AlignmentStyle">>,
              <<"NumberFormat", "int">>, <<"Protection", "*Protection">> >>
      [] t = "FontStyle" ->
           << <<"Bold", "bool">>, <<"Italic", "bool">>, <<"Underline", "string">>,
              <<"Strike", "bool">>, <<"Family", "string">>, <<"Size", "float64">>,
              <<"Color", "string">> >>
      [] t = "FillStyle" ->
           << <<"Type", "string">>, <<"Pattern", "int">>, <<"Color", "[]string">> >>
      [] t = "BorderStyle" ->
           << <<"Type", "string">>, <<"Color", "string">>, <<"Style", "int">> >>
      [] t = "AlignmentStyle" ->
           << <<"Horizontal", "string">>, <<"Vertical", "string">>, <<"WrapText", "bool">>,
              <<"TextRotation", "int">>, <<"Indent", "int">>, <<"ShrinkToFit", "bool">> >>
      [] t = "Protection" -> << <<"Hidden", "bool">>, <<"Locked", "bool">> >>
      [] t = "SheetMetadata" ->
           << <<"Index", "int">>, <<"Name", "string">>, <<"Visible", "bool">>,
              <<"Dimensions", "SheetDimensions">>, <<"MergedCells", "[]MergedCell">>,
              <<"DataValidations", "[]DataValidation">>,
              <<"Protection", "*SheetProtection">>, <<"RowHeights", "map[int]float64">>,
              <<"ColWidths", "map[string]float64">>, <<"Cells", "[]CellMetadata">>,
              <<"Images", "[]ImageMetadata">> >>
      [] t = "SheetDimensions" ->
           << <<"StartCell", "string">>, <<"EndCell", "string">>, <<"RowCount", "int">>,
              <<"ColCount", "int">> >>
      [] t = "MergedCell" ->
           << <<"StartCell", "string">>, <<"EndCell", "string">>, <<"Value", "string">> >>
      [] t = "DataValidation" ->
           << <<"Range", "string">>, <<"Type", "string">>, <<"Operator", "string">>,
              <<"Formula1", "string">>, <<"Formula2", "string">>, <<"ShowError", "bool">>,
              <<"ErrorTitle", "*string">>, <<"ErrorMessage", "*string">> >>
      [] t = "SheetProtection" ->
           << <<"Protected", "bool">>, <<"Password", "string">>, <<"EditObjects", "bool">>,
              <<"EditScenarios", "bool">>, <<"SelectLockedCells", "bool">>,
              <<"SelectUnlockedCells", "bool">> >>
      [] t = "CellMetadata" ->
           << <<"Address", "string">>, <<"Value", "string">>, <<"Formula", "string">>,
              <<"StyleID", "int">>, <<"Type", "excelize.CellType">>,
              <<"Hyperlink", "*Hyperlink">> >>
      [] t = "Hyperlink" -> << <<"Link", "string">> >>
      [] t = "ImageMetadata" ->
           << <<"Cell", "string">>, <<"File", "[]byte">>, <<"Extension", "string">>,
              <<"InsertType", "byte">>, <<"Format", "*ImageFormat">> >>
      [] t = "ImageFormat" ->
           << <<"AltText", "string">>, <<"PrintObject", "*bool">>, <<"Locked", "*bool">>,
              <<"LockAspectRatio", "bool">>, <<"AutoFit", "bool">>,
              <<"AutoFitIgnoreAspect", "bool">>, <<"OffsetX", "int">>, <<"OffsetY", "int">>,
              <<"ScaleX", "float64">>, <<"ScaleY", "float64">>, <<"Hyperlink", "string">>,
              <<"HyperlinkType", "string">>, <<"Positioning", "string">> >>
      [] t = "DefinedName" ->
           << <<"Name", "string">>, <<"RefersTo", "string">>, <<"Scope", "string">> >>
      [] t = "DocumentProperties" ->
           << <<"Title", "string">>, <<"Subject", "string">>, <<"Creator", "string">>,
              <<"Keywords", "string">>, <<"Description", "string">>,
              <<"LastModifiedBy", "string">>, <<"Category", "string">>,
              <<"Version", "string">>, <<"Created", "string">>, <<"Modified", "string">> >>
      [] t = "Metadata" ->
           << <<"Filename", "string">>, <<"Properties", "DocumentProperties">>,
              <<"Sheets", "[]SheetMetadata">>, <<"DefinedNames", "[]DefinedName">>,
              <<"Styles", "map[int]StyleDetails">>, <<"ExtractedAt", "time.Time">> >>

StructTypes ==
    {"StyleDetails", "FontStyle", "FillStyle", "BorderStyle", "AlignmentStyle",
     "Protection", "SheetMetadata", "SheetDimensions", "MergedCell", "DataValidation",
     "SheetProtection", "CellMetadata", "Hyperlink", "ImageMetadata", "ImageFormat",
     "DefinedName", "DocumentProperties", "Metadata"}

\* The element type of the slice and pointer cases that recurse
ElemType(t) ==
    CASE t = "[]SheetMetadata" -> "SheetMetadata"
      [] t = "[]MergedCell" -> "MergedCell"
      [] t = "[]DataValidation" -> "DataValidation"
      [] t = "[]CellMetadata" -> "CellMetadata"
      [] t = "[]ImageMetadata" -> "ImageMetadata"
      [] t = "[]DefinedName" -> "DefinedName"
      [] t = "[]BorderStyle" -> "BorderStyle"
      [] t = "*SheetProtection" -> "SheetProtection"
      [] t = "*FontStyle" -> "FontStyle"
      [] t = "*FillStyle" -> "FillStyle"
      [] t = "*AlignmentStyle" -> "AlignmentStyle"
      [] t = "*Protection" -> "Protection"
      [] t = "*Hyperlink" -> "Hyperlink"
      [] t = "*ImageFormat" -> "ImageFormat"

RecordSliceTypes ==
    {"[]SheetMetadata", "[]MergedCell", "[]DataValidation", "[]CellMetadata",
     "[]ImageMetadata", "[]DefinedName", "[]BorderStyle"}
RecordPointerTypes ==
    {"*SheetProtection", "*FontStyle", "*FillStyle", "*AlignmentStyle", "*Protection",
     "*Hyperlink", "*ImageFormat"}

\* val.Year(), val.Month(), val.Day(), val.Hour(), val.Minute(), val.Second(),
\* val.Nanosecond(): the clock reading of val in its own location (January 2024)
dateFields(val) ==
    LET local == val.utc + val.offset
    IN  <<2024, 1, (local \div 24) + 1, local % 24, 0, 0, 0>>

\* for k, v := range val: the keys of the map in the order the runtime picks
rangeOrder(perm, keys) == SelectSeq(perm, LAMBDA k : k \in keys)

\* case *string: fmt.Sprintf("%v", *val)
ptrString(val) == IF val.isNil THEN NilLit ELSE Verbatim(val.v)

\* case *bool: fmt.Sprintf("%v", *val)
ptrBool(val) == IF val.isNil THEN NilLit ELSE BoolLit(val.v)

\* default: fmt.Sprintf("%#v", v), for the integers of the other signed integer types
goSyntax(val) == ToString(val)

RECURSIVE marshalGo(_, _, _)
marshalGo(t, val, ord) ==
    CASE t = "string" -> Quoted(val)
      [] t = "time.Time" -> DateCall(dateFields(val), "time.UTC")
      [] t = "[]byte" -> ByteSlice(val)
      [] t = "nil" -> NilLit
      [] t = "bool" -> BoolLit(val)
      [] t = "int" -> IntLit(val)
      [] t = "float64" -> FloatLit(val)
      [] t = "*string" -> ptrString(val)
      [] t = "*bool" -> ptrBool(val)
      [] t = "map[int]float64" ->
           IF DOMAIN val = {} THEN NilLit
           ELSE LET keys == rangeOrder(ord.ints, DOMAIN val) IN
                MapLit("map[int]float64",
                       [i \in 1..Len(keys) |->
                           [key |-> IntLit(keys[i]), val |-> FloatLit(val[keys[i]])]],
                       TRUE)
      [] t = "map[string]float64" ->
           IF DOMAIN val = {} THEN NilLit
           ELSE LET keys == rangeOrder(ord.strs, DOMAIN val) IN
                MapLit("map[string]float64",
                       [i \in 1..Len(keys) |->
                           [key |-> Quoted(keys[i]), val |-> FloatLit(val[keys[i]])]],
                       TRUE)
      [] t = "map[int]StyleDetails" ->
           IF DOMAIN val = {} THEN NilLit
           ELSE LET keys == rangeOrder(ord.ints, DOMAIN val) IN
                MapLit("map[int]excelmetadata.StyleDetails",
                       [i \in 1..Len(keys) |->
                           [key |-> IntLit(keys[i]),
                            val |-> marshalGo("StyleDetails", val[keys[i]], ord)]],
                       FALSE)
      [] t = "[]string" ->
           IF Len(val) = 0 THEN NilLit
           ELSE SliceLit("[]string", [i \in 1..Len(val) |-> Quoted(val[i])], TRUE)
      [] t = "[]int" ->
           IF Len(val) = 0 THEN NilLit
           ELSE SliceLit("[]int", [i \in 1..Len(val) |-> IntLit(val[i])], TRUE)
      [] t \in RecordSliceTypes ->
           IF Len(val) = 0 THEN NilLit
           ELSE SliceLit("[]excelmetadata." \o ElemType(t),
                         [i \in 1..Len(val) |-> marshalGo(ElemType(t), val[i], ord)],
                         FALSE)
      [] t \in RecordPointerTypes ->
           IF val.isNil THEN NilLit ELSE Addr(marshalGo(ElemType(t), val.v, ord))
      [] t = "excelize.CellType" -> CellTypeLit(val)
      [] t = "byte" -> ByteLit(val)
      [] t \in StructTypes ->
           LET fields == MarshalFields(t) IN
           Comp("excelmetadata." \o t,
                [i \in 1..Len(fields) |->
                    [name |-> fields[i][1],
                     e |-> marshalGo(fields[i][2], val[fields[i][1]], ord)]])
      [] OTHER -> Verbatim(goSyntax(val))

-----------------------------------------------------------------------------
(* The characters of the emitted text *)

RECURSIVE Cat(_)
Cat(strs) == IF Len(strs) = 0 THEN "" ELSE Head(strs) \o Cat(Tail(strs))

\* %q on the texts of the model: one of them holds characters that are escaped
Quote(str) ==
    "\"" \o (IF str = "say \"no\"" THEN "say \\\"no\\\"" ELSE str) \o "\""

HexDigits == <<"0", "1", "2", "3", "4", "5", "6", "7", "8", "9", "a", "b", "c", "d", "e", "f">>
\* %#v of a byte
Hex(b) == "0x" \o (IF b >= 16 THEN HexDigits[(b \div 16) + 1] ELSE "") \o HexDigits[(b % 16) + 1]

RECURSIVE fraction(_, _)
\* The decimals of f / 10^digits without trailing zeros
fraction(f, digits) ==
    IF f % 10 = 0 THEN fraction(f \div 10, digits - 1)
    ELSE Cat([i \in 1..(digits - Len(ToString(f))) |-> "0"]) \o ToString(f)

\* %v of a float64 that is x/64, x >= 0
FormatFloat(x) ==
    IF x % 64 = 0 THEN ToString(x \div 64)
    ELSE ToString(x \div 64) \o "." \o fraction((x % 64) * 15625, 6)

RECURSIVE goText(_, _)
goText(e, indent) ==
    CASE e.k = "nil" -> "nil"
      [] e.k = "bool" -> IF e.b THEN "true" ELSE "false"
      [] e.k = "int" -> ToString(e.n)
      [] e.k = "float" -> FormatFloat(e.x)
      [] e.k = "quoted" -> Quote(e.s)
      [] e.k = "verbatim" -> e.s
      [] e.k = "bytes" ->
           "[]byte{" \o Cat([i \in 1..Len(e.bs) |->
                               (IF i > 1 THEN ", " ELSE "") \o Hex(e.bs[i])]) \o "}"
      [] e.k = "byte" -> Hex(e.b)
      [] e.k = "celltype" -> "excelize.CellType('\\x0" \o ToString(e.n) \o "')"
      [] e.k = "date" ->
           "time.Date(" \o Cat([i \in 1..Len(e.args) |-> ToString(e.args[i]) \o ", "])
           \o e.loc \o ")"
      [] e.k = "addr" -> "&" \o goText(e.e, indent)
      [] e.k = "comp" ->
           e.type \o "{\n"
           \o Cat([i \in 1..Len(e.fields) |->
                      indent \o "  " \o e.fields[i].name \o ": "
                      \o goText(e.fields[i].e, indent \o "  ") \o ",\n"])
           \o indent \o "}"
      [] e.k = "slice" /\ e.inline ->
           e.type \o "{" \o Cat([i \in 1..Len(e.elems) |-> goText(e.elems[i], indent) \o ", "])
           \o "}"
      [] e.k = "slice" /\ ~e.inline ->
           e.type \o "{\n"
           \o Cat([i \in 1..Len(e.elems) |->
                      indent \o "  " \o goText(e.elems[i], indent \o "  ") \o ",\n"])
           \o indent \o "}"
      [] e.k = "map" /\ e.inline ->
           e.type \o "{"
           \o Cat([i \in 1..Len(e.entries) |->
                      goText(e.entries[i].key, indent) \o ": "
                      \o goText(e.entries[i].val, indent) \o ", "])
           \o "}"
      [] e.k = "map" /\ ~e.inline ->
           e.type \o "{\n"
           \o Cat([i \in 1..Len(e.entries) |->
                      indent \o "  " \o goText(e.entries[i].key, indent) \o ": "
                      \o goText(e.entries[i].val, indent \o "  ") \o ",\n"])
           \o indent \o "}"

\* goStr := fmt.Sprintf(`package main ... metadata := &%s ...`, marshalGo(*metadata, ""))
goProgram(e) ==
    "package main\n\nimport (\n\t\"github.com/prongbang/excelmetadata\"\n"
    \o "\t\"github.com/prongbang/excelrecreator\"\n\t\"github.com/xuri/excelize/v2\"\n)\n\n"
    \o "func main() {\n\tf := excelize.NewFile()\n\n\tmetadata := &"
    \o goText(e, "")
    \o "\n\n\treCreator := &excelrecreator.Recreator{\n\t\tFile:     f,\n"
    \o "\t\tMetadata: metadata,\n\t\tOptions:  excelrecreator.DefaultOptions(),\n"
    \o "\t\tStyleMap: make(map[int]int),\n\t}\n\t_ = reCreator.Recreate()\n\n"
    \o "\t_ = f.SaveAs(\"sample.clone.xlsx\")\n}"

-----------------------------------------------------------------------------
(* ExtractToGO on workbooks with validations, widths, pictures and a zone *)

Validation(title, message) ==
    [Sqref |-> "A1:A9", Type |-> "list", Operator |-> "", Formula1 |-> "\"a,b\"",
     Formula2 |-> "", ShowErrorMessage |-> TRUE, ErrorTitle |-> title, Error |-> message]

GraphicOptions(printObject, locked) ==
    [AltText |-> "logo", PrintObject |-> printObject, Locked |-> locked,
     LockAspectRatio |-> FALSE, AutoFit |-> FALSE, AutoFitIgnoreAspect |-> FALSE,
     OffsetX |-> 0, OffsetY |-> 2, ScaleX |-> 64, ScaleY |-> 32, Hyperlink |-> "",
     HyperlinkType |-> "", Positioning |-> "oneCell"]

Picture(format) ==
    [cell |-> "A1", err |-> FALSE,
     pictures |-> <<[File |-> <<137, 80, 1>>, Extension |-> ".png", InsertType |-> 1,
                     Format |-> format]>>]

GoSheets ==
    { [RowsSheet("Sheet1", rows, FALSE) EXCEPT !.merged = merged, !.dvs = dvs,
                                                !.widths = widths, !.pics = pics] :
        rows \in { << <<Rich, Other>> >>, << <<Plain>> >> },
        merged \in { <<>>, <<[start |-> "A1", end |-> "B1", value |-> "y"]>> },
        dvs \in { <<>>, <<Validation(NilPtr, NilPtr)>>,
                  <<Validation(Ptr("Oops"), Ptr("say \"no\""))>> },
        widths \in { <<>>, <<800>>, <<800, 1000>> },
        pics \in { <<>>, <<Picture(NilPtr)>>,
                   <<Picture(Ptr(GraphicOptions(NilPtr, NilPtr)))>>,
                   <<Picture(Ptr(GraphicOptions(Ptr(TRUE), Ptr(FALSE))))>> } }

\* The zones time.Now() may be in: UTC and UTC+7
InitGo ==
    /\ \E sh \in GoSheets : file = Workbook(<<sh>>, {})
    /\ options = DefaultOptions
    /\ now \in {Time(10, 0), Time(20, 7)}
    /\ Idle

Perms(S) == {p \in [1..Cardinality(S) -> S] : \A i, j \in 1..Cardinality(S) : p[i] = p[j] => i = j}

\* The iteration orders the runtime may pick for the maps of one encoding
RangeOrders == [ints : Perms({1, 2}), strs : Perms({"A", "B"})]

\* ExtractToGO, after its e.Extract() returned: marshalGo(*metadata, "")
MarshalGo ==
    /\ pc = "done"
    /\ call = NoCall
    /\ quick.fn \in {"none", "QuickExtractToGO"}
    /\ \E ord \in RangeOrders :
         LET e == marshalGo("Metadata", metadata, ord) IN
         goOut' = Append(goOut, [of |-> metadata, tree |-> e, text |-> goProgram(e),
                                 err |-> NoError])
    /\ pc' = "returned"
    /\ UNCHANGED <<results, cmd, runs, queried, file, options, now, idx, metadata, decoded, scan, call, fsys, ret, handle, quick, jsonOut>>

\* A second ExtractToGO on the same Extractor; the clock may have moved on
CallAgain ==
    /\ pc = "returned"
    /\ Len(goOut) < 2
    /\ now' \in {now, Time(now.utc + 1, now.offset)}
    /\ pc' = "idle"
    /\ UNCHANGED <<results, cmd, runs, queried, file, options, idx, metadata, decoded, scan, goOut, call, fsys, ret, handle, quick, jsonOut>>

NextGo == ExtractBegin \/ ExtractSheet \/ ExtractStyles \/ MarshalGo \/ CallAgain

SpecGo == InitGo /\ [][NextGo]_vars

-----------------------------------------------------------------------------
(* The interchange (JSON) encoding: json.Marshal over the declared tags *)

\* The fields of each struct in declaration order: Go name, JSON key, type,
\* omitempty.  ImageFormat declares no tags: the key is the Go name.
JsonFields(t) ==
    CASE t = "Metadata" ->
           << <<"Filename", "filename", "string", FALSE>>,
              <<"Properties", "properties", "DocumentProperties", FALSE>>,
              <<"Sheets", "sheets", "[]SheetMetadata", FALSE>>,
              <<"DefinedNames", "definedNames", "[]DefinedName", TRUE>>,
              <<"Styles", "styles", "map[int]StyleDetails", TRUE>>,
              <<"ExtractedAt", "extractedAt", "time.Time", FALSE>> >>
      [] t = "DocumentProperties" ->
           << <<"Title", "title", "string", TRUE>>, <<"Subject", "subject", "string", TRUE>>,
              <<"Creator", "creator", "string", TRUE>>,
              <<"Keywords", "keywords", "string", TRUE>>,
              <<"Description", "description", "string", TRUE>>,
              <<"LastModifiedBy", "lastModifiedBy", "string", TRUE>>,
              <<"Category", "category", "string", TRUE>>,
              <<"Version", "version", "string", TRUE>>,
              <<"Created", "created", "string", TRUE>>,
              <<"Modified", "modified", "string", TRUE>> >>
      [] t = "SheetMetadata" ->
           << <<"Index", "index", "int", FALSE>>, <<"Name", "name", "string", FALSE>>,
              <<"Visible", "visible", "bool", FALSE>>,
              <<"Dimensions", "dimensions", "SheetDimensions", FALSE>>,
              <<"MergedCells", "mergedCells", "[]MergedCell", TRUE>>,
              <<"DataValidations", "dataValidations", "[]DataValidation", TRUE>>,
              <<"Protection", "protection", "*SheetProtection", TRUE>>,
              <<"RowHeights", "rowHeights", "map[int]float64", TRUE>>,
              <<"ColWidths", "colWidths", "map[string]float64", TRUE>>,
              <<"Cells", "cells", "[]CellMetadata", TRUE>>,
              <<"Images", "images", "[]ImageMetadata", TRUE>> >>
      [] t = "SheetDimensions" ->
           << <<"StartCell", "startCell", "string", FALSE>>,
              <<"EndCell", "endCell", "string", FALSE>>,
              <<"RowCount", "rowCount", "int", FALSE>>,
              <<"ColCount", "colCount", "int", FALSE>> >>
      [] t = "CellMetadata" ->
           << <<"Address", "address", "string", FALSE>>,
              <<"Value", "value", "interface{}", TRUE>>,
              <<"Formula", "formula", "string", TRUE>>,
              <<"StyleID", "styleId", "int", TRUE>>,
              <<"Type", "type", "excelize.CellType", FALSE>>,
              <<"Hyperlink", "hyperlink", "*Hyperlink", TRUE>> >>
      [] t = "MergedCell" ->
           << <<"StartCell", "startCell", "string", FALSE>>,
              <<"EndCell", "endCell", "string", FALSE>>,
              <<"Value", "value", "string", TRUE>> >>
      [] t = "DataValidation" ->
           << <<"Range", "range", "string", FALSE>>, <<"Type", "type", "string", FALSE>>,
              <<"Operator", "operator", "string", TRUE>>,
              <<"Formula1", "formula1", "string", TRUE>>,
              <<"Formula2", "formula2", "string", TRUE>>,
              <<"ShowError", "showError", "bool", FALSE>>,
              <<"ErrorTitle", "errorTitle", "*string", TRUE>>,
              <<"ErrorMessage", "errorMessage", "*string", TRUE>> >>
      [] t = "SheetProtection" ->
           << <<"Protected", "protected", "bool", FALSE>>,
              <<"Password", "password", "string", TRUE>>,
              <<"EditObjects", "editObjects", "bool", FALSE>>,
              <<"EditScenarios", "editScenarios", "bool", FALSE>>,
              <<"SelectLockedCells", "selectLockedCells", "bool", FALSE>>,
              <<"SelectUnlockedCells", "selectUnlockedCells", "bool", FALSE>> >>
      [] t = "DefinedName" ->
           << <<"Name", "name", "string", FALSE>>, <<"RefersTo", "refersTo", "string", FALSE>>,
              <<"Scope", "scope", "string", TRUE>> >>
      [] t = "StyleDetails" ->
           << <<"Font", "font", "*FontStyle", TRUE>>, <<"Fill", "fill", "*FillStyle", TRUE>>,
              <<"Border", "border", "[]BorderStyle", TRUE>>,
              <<"Alignment", "alignment", "*AlignmentStyle", TRUE>>,
              <<"NumberFormat", "numberFormat", "int", TRUE>>,
              <<"Protection", "protection", "*Protection", TRUE>> >>
      [] t = "FontStyle" ->
           << <<"Bold", "bold", "bool", TRUE>>, <<"Italic", "italic", "bool", TRUE>>,
              <<"Underline", "underline", "string", TRUE>>,
              <<"Strike", "strike", "bool", TRUE>>, <<"Family", "family", "string", TRUE>>,
              <<"Size", "size", "float64", TRUE>>, <<"Color", "color", "string", TRUE>> >>
      [] t = "FillStyle" ->
           << <<"Type", "type", "string", TRUE>>, <<"Pattern", "pattern", "int", TRUE>>,
              <<"Color", "color", "[]string", TRUE>> >>
      [] t = "BorderStyle" ->
           << <<"Type", "type", "string", TRUE>>, <<"Color", "color", "string", TRUE>>,
              <<"Style", "style", "int", TRUE>> >>
      [] t = "AlignmentStyle" ->
           << <<"Horizontal", "horizontal", "string", TRUE>>,
              <<"Vertical", "vertical", "string", TRUE>>,
              <<"WrapText", "wrapText", "bool", TRUE>>,
              <<"TextRotation", "textRotation", "int", TRUE>>,
              <<"Indent", "indent", "int", TRUE>>,
              <<"ShrinkToFit", "shrinkToFit", "bool", TRUE>> >>
      [] t = "Protection" ->
           << <<"Hidden", "hidden", "bool", TRUE>>, <<"Locked", "locked", "bool", TRUE>> >>
      [] t = "Hyperlink" -> << <<"Link", "link", "string", FALSE>> >>
      [] t = "ImageMetadata" ->
           << <<"Cell", "cell", "string", FALSE>>, <<"File", "file", "[]byte", FALSE>>,
              <<"Extension", "extension", "string", FALSE>>,
              <<"InsertType", "insertType", "byte", FALSE>>,
              <<"Format", "format", "*ImageFormat", FALSE>> >>
      [] t = "ImageFormat" ->
           << <<"AltText", "AltText", "string", FALSE>>,
              <<"PrintObject", "PrintObject", "*bool", FALSE>>,
              <<"Locked", "Locked", "*bool", FALSE>>,
              <<"LockAspectRatio", "LockAspectRatio", "bool", FALSE>>,
              <<"AutoFit", "AutoFit", "bool", FALSE>>,
              <<"AutoFitIgnoreAspect", "AutoFitIgnoreAspect", "bool", FALSE>>,
              <<"OffsetX", "OffsetX", "int", FALSE>>, <<"OffsetY", "OffsetY", "int", FALSE>>,
              <<"ScaleX", "ScaleX", "float64", FALSE>>,
              <<"ScaleY", "ScaleY", "float64", FALSE>>,
              <<"Hyperlink", "Hyperlink", "string", FALSE>>,
              <<"HyperlinkType", "HyperlinkType", "string", FALSE>>,
              <<"Positioning", "Positioning", "string", FALSE>> >>

\* The nodes of a JSON document; a string holds the pieces of its text
JNull == [k |-> "null"]
JBool(b) == [k |-> "bool", b |-> b]
JInt(n) == [k |-> "int", n |-> n]
JFloat(x) == [k |-> "float", x |-> x]
JStr(pieces) == [k |-> "str", s |-> pieces]
JArr(elems) == [k |-> "arr", elems |-> elems]
JObj(members) == [k |-> "obj", members |-> members]

\* A text with a byte that is no valid UTF-8, and the same text with the
\* Unicode replacement character in its place
BadUTF8Name == "<0xFF>.xlsx"
ReplacedName == "<U+FFFD>.xlsx"

\* The text between the quotes of a JSON string: invalid UTF-8 is written as
\* the six characters of the escape of U+FFFD, the quote is escaped
jsonEscape(str) ==
    IF str = BadUTF8Name THEN "\\ufffd.xlsx"
    ELSE IF str = "say \"no\"" THEN "say \\\"no\\\""
    ELSE IF str = "\"a,b\"" THEN "\\\"a,b\\\""
    ELSE str

TwoDigits(n) == IF n < 10 THEN "0" \o ToString(n) ELSE ToString(n)

\* Time.MarshalJSON: RFC 3339 of the clock reading in the time's location
rfc3339(val) ==
    LET local == val.utc + val.offset IN
    <<"2024-01-", TwoDigits((local \div 24) + 1), "T", TwoDigits(local % 24), ":00:00",
      IF val.offset = 0 THEN "Z" ELSE "+" \o TwoDigits(val.offset) \o ":00">>

B64 ==
    <<"A", "B", "C", "D", "E", "F", "G", "H", "I", "J", "K", "L", "M", "N", "O", "P",
      "Q", "R", "S", "T", "U", "V", "W", "X", "Y", "Z", "a", "b", "c", "d", "e", "f",
      "g", "h", "i", "j", "k", "l", "m", "n", "o", "p", "q", "r", "s", "t", "u", "v",
      "w", "x", "y", "z", "0", "1", "2", "3", "4", "5", "6", "7", "8", "9", "+", "/">>

RECURSIVE base64From(_, _)
\* base64.StdEncoding of the bytes from position i on, one piece per character
base64From(bs, i) ==
    LET n == Len(bs) - i + 1 IN
    IF n <= 0 THEN <<>>
    ELSE LET b1 == bs[i]
             b2 == IF n >= 2 THEN bs[i + 1] ELSE 0
             b3 == IF n >= 3 THEN bs[i + 2] ELSE 0
         IN  << B64[(b1 \div 4) + 1],
                B64[((b1 % 4) * 16 + (b2 \div 16)) + 1],
                IF n >= 2 THEN B64[((b2 % 16) * 4 + (b3 \div 64)) + 1] ELSE "=",
                IF n >= 3 THEN B64[(b3 % 64) + 1] ELSE "=" >>
             \o base64From(bs, i + 3)

\* The position of a column name among the single letters: the order of
\* the keys of ColWidths as strings
letterRank(name) == CHOOSE i \in 1..Len(Letters) : Letters[i] = name

\* The keys of a map in the order json.Marshal writes them
jsonKeyOrder(t, keys) ==
    LET rank(k) == IF t = "map[string]float64" THEN letterRank(k) ELSE k
        n == Cardinality(keys)
    IN  [i \in 1..n |-> CHOOSE k \in keys : Cardinality({j \in keys : rank(j) < rank(k)}) = i - 1]

\* omitempty: false, 0, a nil pointer, a nil interface value, and any empty
\* array, slice, map, or string
isEmptyValue(t, val) ==
    CASE t \in {"string", "interface{}"} -> val = ""
      [] t = "bool" -> ~val
      [] t \in {"int", "float64", "byte", "excelize.CellType"} -> val = 0
      [] t \in RecordPointerTypes \cup {"*string", "*bool"} -> val.isNil
      [] t \in RecordSliceTypes \cup {"[]string", "[]int", "[]byte"} -> Len(val) = 0
      [] t \in {"map[int]float64", "map[string]float64", "map[int]StyleDetails"} ->
           DOMAIN val = {}
      [] OTHER -> FALSE

RECURSIVE jsonValue(_, _)
jsonValue(t, val) ==
    CASE t \in {"string", "interface{}"} -> JStr(<<jsonEscape(val)>>)
      [] t = "bool" -> JBool(val)
      [] t \in {"int", "byte", "excelize.CellType"} -> JInt(val)
      [] t = "float64" -> JFloat(val)
      [] t = "time.Time" -> JStr(rfc3339(val))
      [] t = "[]byte" -> IF Len(val) = 0 THEN JNull ELSE JStr(base64From(val, 1))
      [] t = "*string" -> IF val.isNil THEN JNull ELSE JStr(<<jsonEscape(val.v)>>)
      [] t = "*bool" -> IF val.isNil THEN JNull ELSE JBool(val.v)
      [] t \in RecordPointerTypes ->
           IF val.isNil THEN JNull ELSE jsonValue(ElemType(t), val.v)
      [] t = "[]SheetMetadata" ->
           \* Sheets starts as []SheetMetadata{}: never a nil slice
           JArr([i \in 1..Len(val) |-> jsonValue("SheetMetadata", val[i])])
      [] t \in RecordSliceTypes \cup {"[]string", "[]int"} ->
           IF Len(val) = 0 THEN JNull
           ELSE JArr([i \in 1..Len(val) |->
                        jsonValue(IF t = "[]string" THEN "string"
                                  ELSE IF t = "[]int" THEN "int" ELSE ElemType(t), val[i])])
      [] t \in {"map[int]float64", "map[string]float64", "map[int]StyleDetails"} ->
           LET keys == jsonKeyOrder(t, DOMAIN val) IN
           JObj([i \in 1..Len(keys) |->
                    [key |-> IF t = "map[string]float64" THEN keys[i] ELSE ToString(keys[i]),
                     val |-> jsonValue(IF t = "map[int]StyleDetails" THEN "StyleDetails"
                                       ELSE "float64", val[keys[i]])]])
      [] t \in StructTypes ->
           LET fields == JsonFields(t)
               kept   == SelectSeq(fields,
                                   LAMBDA f : ~(f[4] /\ isEmptyValue(f[3], val[f[1]])))
           IN  JObj([i \in 1..Len(kept) |->
                       [key |-> kept[i][2], val |-> jsonValue(kept[i][3], val[kept[i][1]])]])

\* The tokens of the text: punctuation, white space, and the leaf nodes
Punct(c) == [k |-> "punct", s |-> c]
Space(c) == [k |-> "ws", s |-> c]

RECURSIVE Repeat(_, _)
Repeat(str, n) == IF n = 0 THEN "" ELSE str \o Repeat(str, n - 1)

\* json.MarshalIndent(v, "", "  "): a new line and depth indents before each
\* element and before the closing bracket; json.Marshal: no white space
newline(pretty, depth) ==
    IF pretty THEN <<Space("\n" \o Repeat("  ", depth))>> ELSE <<>>

RECURSIVE Flatten(_)
Flatten(seqs) == IF Len(seqs) = 0 THEN <<>> ELSE Head(seqs) \o Flatten(Tail(seqs))

RECURSIVE jsonTokens(_, _, _)
jsonTokens(node, pretty, depth) ==
    CASE node.k = "arr" ->
           IF Len(node.elems) = 0 THEN <<Punct("["), Punct("]")>>
           ELSE <<Punct("[")>>
                \o Flatten([i \in 1..Len(node.elems) |->
                              (IF i > 1 THEN <<Punct(",")>> ELSE <<>>)
                              \o newline(pretty, depth + 1)
                              \o jsonTokens(node.elems[i], pretty, depth + 1)])
                \o newline(pretty, depth) \o <<Punct("]")>>
      [] node.k = "obj" ->
           IF Len(node.members) = 0 THEN <<Punct("{"), Punct("}")>>
           ELSE <<Punct("{")>>
                \o Flatten([i \in 1..Len(node.members) |->
                              (IF i > 1 THEN <<Punct(",")>> ELSE <<>>)
                              \o newline(pretty, depth + 1)
                              \o <<JStr(<<node.members[i].key>>), Punct(":")>>
                              \o (IF pretty THEN <<Space(" ")>> ELSE <<>>)
                              \o jsonTokens(node.members[i].val, pretty, depth + 1)])
                \o newline(pretty, depth) \o <<Punct("}")>>
      [] OTHER -> <<node>>

\* json.MarshalIndent(metadata, "", "  ") or json.Marshal(metadata): the
\* text of the document, with the indent of the call and the value encoded
jsonMarshal(m, pretty) ==
    [kind |-> "json", indent |-> IF pretty THEN "  " ELSE "", of |-> m,
     text |-> jsonTokens(jsonValue("Metadata", m), pretty, 0)]

-----------------------------------------------------------------------------
(* ExtractToFile: the output path, its extension and the file system *)

MaxPathLen == 3

\* The pieces output paths are made of: the separator, the dot and names
PathTokens == {"/", ".", "json", "go", "JSON", "x"}
MaxDepth == 2

\* Paths below up to MaxDepth pieces of directories, absolute and relative
DeepPaths ==
    { prefix \o name : prefix \in SeqsUpTo({"x", "/"}, 2 * MaxDepth),
                       name \in {<<"/", ".", "json">>, <<"/", "x", ".", "go">>, <<"/", "x">>} }

Paths == SeqsUpTo(PathTokens, MaxPathLen) \cup DeepPaths

\* The last position of tok in p, 0 when there is none
LastIndex(p, tok) ==
    IF \E i \in 1..Len(p) : p[i] = tok
    THEN CHOOSE i \in 1..Len(p) : p[i] = tok /\ \A j \in (i + 1)..Len(p) : p[j] # tok
    ELSE 0

\* The suffix from the first dot of the final element
ExtFirstDot(p) ==
    LET slash == LastIndex(p, "/")
        dots  == {i \in (slash + 1)..Len(p) : p[i] = "."}
    IN  IF dots = {} THEN ""
        ELSE Cat(SubSeq(p, CHOOSE i \in dots : \A j \in dots : i <= j, Len(p)))

\* path.Ext: the suffix beginning at the final dot in the final
\* slash-separated element of the path, empty if there is no dot
Ext(p) ==
    LET slash == LastIndex(p, "/")
        dot   == LastIndex(p, ".")
    IN  IF dot > slash THEN Cat(SubSeq(p, dot, Len(p))) ELSE ""

\* Clean, one element: empty and "." elements are dropped, ".." removes the
\* element before it or, on a path that is not rooted, stays
pushElem(out, el, rooted) ==
    IF el = <<>> \/ el = <<".">> THEN out
    ELSE IF el = <<".", ".">>
         THEN IF Len(out) > 0 /\ out[Len(out)] # ".." THEN SubSeq(out, 1, Len(out) - 1)
              ELSE IF rooted THEN out ELSE Append(out, "..")
         ELSE Append(out, Cat(el))

RECURSIVE cleanFrom(_, _, _, _, _)
cleanFrom(p, i, cur, out, rooted) ==
    IF i > Len(p) THEN pushElem(out, cur, rooted)
    ELSE IF p[i] = "/" THEN cleanFrom(p, i + 1, <<>>, pushElem(out, cur, rooted), rooted)
         ELSE cleanFrom(p, i + 1, Append(cur, p[i]), out, rooted)

Rooted(p) == Len(p) > 0 /\ p[1] = "/"

\* The cleaned elements put together again; "/" or "." when there is none
joinElems(out, rooted) ==
    IF Len(out) = 0 THEN (IF rooted THEN "/" ELSE ".")
    ELSE (IF rooted THEN "/" ELSE "")
         \o Cat([i \in 1..Len(out) |-> (IF i > 1 THEN "/" ELSE "") \o out[i]])

Clean(p) == joinElems(cleanFrom(p, 1, <<>>, <<>>, Rooted(p)), Rooted(p))

\* filepath.Dir: all but the last element of the path, cleaned
Dir(p) == Clean(SubSeq(p, 1, LastIndex(p, "/")))

\* The directories os.MkdirAll(filepath.Dir(p)) makes sure of, outermost
\* first; the last one is Dir(p)
dirChain(p) ==
    LET d   == SubSeq(p, 1, LastIndex(p, "/"))
        out == cleanFrom(d, 1, <<>>, <<>>, Rooted(d))
    IN  IF Len(out) = 0 THEN <<Clean(d)>>
        ELSE [k \in 1..Len(out) |-> joinElems(SubSeq(out, 1, k), Rooted(d))]

RECURSIVE makeDirs(_, _, _)
\* The first n directories of chain, made where they are missing
makeDirs(dirs, chain, n) ==
    IF n = 0 THEN dirs
    ELSE LET before == makeDirs(dirs, chain, n - 1) IN
         IF \E i \in 1..Len(before) : before[i] = chain[n] THEN before
         ELSE Append(before, chain[n])

\* os.MkdirAll(dir, 0755): the directory with its missing ancestors; failAt is
\* the directory of the chain that cannot be made, 0 when all can
MkdirAll(disk, p, failAt) ==
    LET chain == dirChain(p) IN
    [err  |-> IF failAt = 0 THEN <<>> ELSE <<"mkdir ", chain[failAt]>>,
     disk |-> [disk EXCEPT
                 !.dirs = makeDirs(@, chain, IF failAt = 0 THEN Len(chain) ELSE failAt - 1),
                 !.ops = Append(@, [op |-> "MkdirAll", path |-> Dir(p),
                                    failed |-> failAt # 0])]]

\* os.WriteFile(outputPath, data, 0644)
WriteFile(disk, p, data, writeErr) ==
    [err  |-> IF writeErr THEN <<"open ", Cat(p)>> ELSE <<>>,
     disk |-> [disk EXCEPT
                 !.files = IF writeErr THEN @ ELSE Append(@, [path |-> p, data |-> data]),
                 !.ops = Append(@, [op |-> "WriteFile", path |-> Cat(p),
                                    failed |-> writeErr])]]

\* The test that goes on to write whatever MkdirAll returned
mkdirFailedNever(err) == FALSE
\* if err := os.MkdirAll(dir, 0755); err != nil { return err }
mkdirFailed(err) == err # <<>>


InitFile ==
    /\ file \in {Workbook(<<>>, {}),
                 Workbook(<<RowsSheet("Sheet1", << <<Rich, Other>> >>, FALSE)>>, {})}
    /\ options = DefaultOptions
    /\ now = Time(10, 0)
    /\ pc = "file"
    /\ idx = 0
    /\ metadata = NoMetadata
    /\ decoded = <<>>
    /\ scan = NoScan
    /\ goOut = <<>>
    /\ call = NoCall
    /\ fsys = EmptyDisk
    /\ ret = <<>>
    /\ handle = OpenHandle
    /\ quick = NoQuick
    /\ jsonOut = <<>>
    /\ queried = <<>>
    /\ runs = <<>>
    /\ cmd = NoCmd
    /\ results = <<>>

\* ext := path.Ext(outputPath); the else branch returns at once, the others
\* enter e.Extract() through ExtractToJSON or ExtractToGO
\* A dispatch that takes every extension
supportedExtAny(ext) == TRUE
\* if ext == ".json" {...} else if ext == ".go" {...} else { return errors.New(...) }
supportedExt(ext) == ext = ".json" \/ ext = ".go"

ExtractToFileAt(paths) ==
    /\ pc = "file"
    /\ \E outputPath \in paths, pretty \in BOOLEAN :
         LET ext == Ext(outputPath) IN
         /\ call' = [path |-> outputPath, pretty |-> pretty, ext |-> ext]
         /\ IF supportedExt(ext)
            THEN pc' = "idle" /\ ret' = ret
            ELSE pc' = "returned" /\ ret' = <<"unsupported ", ext, " file">>
    /\ UNCHANGED <<results, cmd, runs, queried, file, options, now, idx, metadata, decoded, scan, goOut, fsys, handle, quick, jsonOut>>

\* data = []byte(jsonStr) or []byte(goStr); os.MkdirAll(dir, 0755);
\* os.WriteFile(outputPath, data, 0644)
ExtractToFileWrite ==
    /\ pc = "done"
    /\ call # NoCall
    /\ \E ord \in RangeOrders, failAt \in 0..Len(dirChain(call.path)), writeErr \in BOOLEAN :
         LET data == IF call.ext = ".json" THEN jsonMarshal(metadata, call.pretty)
                     ELSE [kind |-> "go",
                           text |-> goProgram(marshalGo("Metadata", metadata, ord))]
             made == MkdirAll(fsys, call.path, failAt)
             written == WriteFile(made.disk, call.path, data, writeErr)
         IN  IF mkdirFailed(made.err)
             THEN ret' = made.err /\ fsys' = made.disk
             ELSE ret' = written.err /\ fsys' = written.disk
    /\ pc' = "returned"
    /\ UNCHANGED <<results, cmd, runs, queried, file, options, now, idx, metadata, decoded, scan, goOut, call, handle, quick, jsonOut>>

ExtractToFileBegin == ExtractToFileAt(Paths)

NextFile ==
    ExtractToFileBegin \/ ExtractBegin \/ ExtractSheet \/ ExtractStyles \/ ExtractToFileWrite

SpecFile == InitFile /\ [][NextFile]_vars

-----------------------------------------------------------------------------
(* marshalGo as a function of any value v interface{} *)

MaxNumber == 30

\* The types the type switch of marshalGo has a case for
RegisteredTypes ==
    {"string", "time.Time", "[]byte", "nil", "bool", "int", "float64", "*string", "*bool",
     "map[int]float64", "map[string]float64", "map[int]StyleDetails", "[]string", "[]int"}
    \cup RecordSliceTypes \cup RecordPointerTypes \cup StructTypes

\* Values of types with a case, and integers of types without one
EncoderInputs ==
    {<<t, n>> : t \in {"int", "int64", "int32", "int16"}, n \in 0..MaxNumber}
    \cup {<<"float64", n * 32>> : n \in 0..MaxNumber}
    \cup {<<"string", str>> : str \in {"", "x", "say \"no\""}}
    \cup {<<"bool", b>> : b \in BOOLEAN}
    \cup {<<"*bool", b>> : b \in {NilPtr, Ptr(TRUE)}}
    \cup {<<"[]int", q>> : q \in {<<>>, <<1, 2>>}}
    \cup {<<"SheetDimensions", ZeroDimensions>>}

\* metadata := &%s with marshalGo(v, ""); return goStr, nil
EncodeValue ==
    /\ pc = "idle"
    /\ \E in \in EncoderInputs, ord \in RangeOrders :
         LET e == marshalGo(in[1], in[2], ord) IN
         goOut' = Append(goOut, [of |-> in, tree |-> e, text |-> goProgram(e),
                                 err |-> NoError])
    /\ pc' = "returned"
    /\ UNCHANGED <<results, cmd, runs, queried, file, options, now, idx, metadata, decoded, scan, call, fsys, ret,
                   handle, quick, jsonOut>>

InitEncode ==
    /\ file = Workbook(<<>>, {})
    /\ options = DefaultOptions
    /\ now = Time(10, 0)
    /\ Idle

NextEncode == EncodeValue

SpecEncode == InitEncode /\ [][NextEncode]_vars

-----------------------------------------------------------------------------
(* ExtractToJSON on workbooks with validations, widths, pictures and a zone *)

\* The file names New may be given: any bytes the file system accepts
InitJson ==
    /\ \E sh \in GoSheets, name \in {"sample.xlsx", BadUTF8Name} :
         file = [Workbook(<<sh>>, {}) EXCEPT !.filename = name]
    /\ options = DefaultOptions
    /\ now \in {Time(10, 0), Time(20, 7)}
    /\ Idle

\* ExtractToJSON, after its e.Extract() returned: json.MarshalIndent or
\* json.Marshal, return string(jsonData), nil
ExtractToJSON ==
    /\ pc = "done"
    /\ call = NoCall
    /\ \E pretty \in BOOLEAN :
         jsonOut' = Append(jsonOut, [of |-> metadata, pretty |-> pretty,
                                     text |-> jsonMarshal(metadata, pretty).text,
                                     err |-> NoError])
    /\ pc' = "jsonReturned"
    /\ UNCHANGED <<results, cmd, runs, queried, file, options, now, idx, metadata, decoded, scan, goOut, call, fsys, ret,
                   handle, quick>>

\* A second ExtractToJSON on the same Extractor; the clock may have moved on
JsonAgain ==
    /\ pc = "jsonReturned"
    /\ Len(jsonOut) < 2
    /\ now' \in {now, Time(now.utc + 1, now.offset)}
    /\ pc' = "idle"
    /\ UNCHANGED <<results, cmd, runs, queried, file, options, idx, metadata, decoded, scan, goOut, call, fsys, ret,
                   handle, quick, jsonOut>>

NextJson == ExtractBegin \/ ExtractSheet \/ ExtractStyles \/ ExtractToJSON \/ JsonAgain

SpecJson == InitJson /\ [][NextJson]_vars

-----------------------------------------------------------------------------
(* QuickExtract, QuickExtractToJSON, QuickExtractToGO, QuickExtractToFile *)

QuickFns == {"QuickExtract", "QuickExtractToJSON", "QuickExtractToGO", "QuickExtractToFile"}

\* New: if err != nil { return nil, fmt.Errorf("failed to open file: %w", err) }
newFailsNever(openErr) == FALSE
newFails(openErr) == openErr

\* The operation the Quick* function returns the result of has returned
opDone(fn, at) ==
    \/ fn \in {"QuickExtract", "QuickExtractToJSON"} /\ at = "done"
    \/ fn \in {"QuickExtractToGO", "QuickExtractToFile"} /\ at = "returned"

\* defer func(extractor *Extractor) { _ = extractor.Close() }(extractor):
\* the deferred call runs when the surrounding function returns
closeAtOnce(fn, at) == TRUE
closeDue(fn, at) == opDone(fn, at)

\* What the Quick* function hands back from the operation: the Metadata, the
\* JSON text, the Go text, or nothing beside the error of ExtractToFile
quickValue(fn, pretty, m, out) ==
    CASE fn = "QuickExtract" -> <<m>>
      [] fn = "QuickExtractToJSON" -> <<jsonMarshal(m, pretty)>>
      [] fn = "QuickExtractToGO" -> <<out[Len(out)].text>>
      [] fn = "QuickExtractToFile" -> <<>>

InitQuick ==
    /\ file \in {Workbook(<<>>, {}),
                 Workbook(<<RowsSheet("Sheet1", << <<Rich, Other>> >>, FALSE)>>, {1})}
    /\ options = DefaultOptions
    /\ now = Time(10, 0)
    /\ pc = "quick"
    /\ idx = 0
    /\ metadata = NoMetadata
    /\ decoded = <<>>
    /\ scan = NoScan
    /\ goOut = <<>>
    /\ call = NoCall
    /\ fsys = EmptyDisk
    /\ ret = <<>>
    /\ handle = NoHandle
    /\ quick = NoQuick
    /\ jsonOut = <<>>
    /\ queried = <<>>
    /\ runs = <<>>
    /\ cmd = NoCmd
    /\ results = <<>>

\* extractor, err := New(filename, DefaultOptions()); if err != nil { return ..., err }
QuickNew ==
    /\ pc = "quick"
    /\ \E fn \in QuickFns, pretty \in BOOLEAN, openErr \in BOOLEAN :
         IF newFails(openErr)
         THEN /\ quick' = [fn |-> fn, pretty |-> pretty, openErr |-> openErr,
                           err |-> <<"failed to open file: ", "open error">>,
                           value |-> <<>>]
              /\ pc' = "quickReturned"
              /\ handle' = handle
         ELSE /\ quick' = [fn |-> fn, pretty |-> pretty, openErr |-> openErr,
                           err |-> <<>>, value |-> <<>>]
              /\ pc' = IF fn = "QuickExtractToFile" THEN "file" ELSE "idle"
              /\ handle' = [state |-> "open", opens |-> handle.opens + 1,
                            closes |-> handle.closes]
    /\ UNCHANGED <<results, cmd, runs, queried, file, options, now, idx, metadata, decoded, scan, goOut, call, fsys, ret, jsonOut>>

\* return extractor.Extract() (ExtractToJSON, ExtractToGO, ExtractToFile): the
\* deferred Close runs, e.file.Close(), and the function returns
QuickReturn ==
    /\ quick.fn # "none"
    /\ handle.state = "open"
    /\ closeDue(quick.fn, pc)
    /\ handle' = [handle EXCEPT !.state = "closed", !.closes = @ + 1]
    /\ IF opDone(quick.fn, pc)
       THEN /\ quick' = [quick EXCEPT
                           !.err = IF quick.fn = "QuickExtractToFile" THEN ret ELSE <<>>,
                           !.value = IF quick.fn = "QuickExtractToFile" /\ ret # <<>>
                                     THEN <<>>
                                     ELSE quickValue(quick.fn, quick.pretty, metadata, goOut)]
            /\ pc' = "quickReturned"
       ELSE UNCHANGED <<quick, pc>>
    /\ UNCHANGED <<results, cmd, runs, queried, file, options, now, idx, metadata, decoded, scan, goOut, call, fsys, ret, jsonOut>>

NextQuick ==
    \/ QuickNew
    \/ ExtractBegin \/ ExtractSheet \/ ExtractStyles
    \/ MarshalGo
    \/ ExtractToFileBegin \/ ExtractToFileWrite
    \/ QuickReturn

SpecQuick == InitQuick /\ [][NextQuick]_vars

-----------------------------------------------------------------------------
(* Extract under every combination of the inclusion flags *)

\* Sheets with the components the flags gate: cells, styles, validations and
\* pictures (one of them behind a failing GetPictures)
FlagSheets(name) ==
    { [RowsSheet(name, << <<Rich, Other>> >>, FALSE)
          EXCEPT !.dvs = <<Validation(Ptr("Oops"), NilPtr)>>,
                 !.pics = <<Picture(Ptr(GraphicOptions(NilPtr, NilPtr)))>>],
      [RowsSheet(name, << <<Rich>>, <<Plain>> >>, FALSE)
          EXCEPT !.pics = <<[Picture(NilPtr) EXCEPT !.err = TRUE]>>],
      RowsSheet(name, << <<Plain>> >>, FALSE) }

FlagOptions ==
    [IncludeCellData : BOOLEAN, IncludeStyles : BOOLEAN, IncludeImages : BOOLEAN,
     IncludeDefinedNames : BOOLEAN, IncludeDataValidation : BOOLEAN,
     MaxCellsPerSheet : {0, MaxCap}]

InitFlags ==
    /\ \E n \in 1..MaxSheets :
          \E sheets \in [1..n -> UNION {FlagSheets(SheetName(i)) : i \in 1..n}] :
             /\ \A i \in 1..n : sheets[i] \in FlagSheets(SheetName(i))
             /\ \E se \in {{}, {1}}, propsErr \in BOOLEAN :
                   file = [Workbook(sheets, se) EXCEPT !.propsErr = propsErr]
    /\ options \in FlagOptions
    /\ now = Time(10, 0)
    /\ Idle

SpecFlags == InitFlags /\ [][Next]_vars

-----------------------------------------------------------------------------
(* Extract runs on separate Extractor instances, interleaved *)

MaxRuns == 2

\* An Extractor New returned, Extract not yet called on it
NewRun(f, opts) ==
    [file |-> f, options |-> opts, pc |-> "idle", idx |-> 0, metadata |-> NoMetadata,
     cache |-> [styles |-> EmptyMap, processed |-> {}, decoded |-> <<>>]]

\* The workbooks and options the instances are opened with
RunFiles ==
    { Workbook(<<RowsSheet("Sheet1", << <<Rich, Other>> >>, FALSE)>>, {}),
      Workbook(<<RowsSheet("Sheet1", << <<Other>> >>, FALSE),
                 RowsSheet("Sheet2", << <<Plain, Rich>>, <<Other>> >>, FALSE)>>, {2}),
      Workbook(<<RowsSheet("Sheet1", << <<Rich>> >>, TRUE)>>, {}) }

RunOptions == {DefaultOptions, [DefaultOptions EXCEPT !.MaxCellsPerSheet = 1]}

\* A cache every instance would share
styleCacheShared(rs, i) ==
    [rs[i].cache EXCEPT !.processed = UNION {rs[j].cache.processed : j \in DOMAIN rs}]
\* processedStyles := make(map[int]bool); styles := make(map[int]StyleDetails):
\* locals of the extractUniqueStyles call of instance i
styleCache(rs, i) == rs[i].cache

InitTwo ==
    /\ file = Workbook(<<>>, {})
    /\ options = DefaultOptions
    /\ now = Time(10, 0)
    /\ pc = "idle"
    /\ idx = 0
    /\ metadata = NoMetadata
    /\ decoded = <<>>
    /\ scan = NoScan
    /\ goOut = <<>>
    /\ call = NoCall
    /\ fsys = EmptyDisk
    /\ ret = <<>>
    /\ handle = OpenHandle
    /\ quick = NoQuick
    /\ jsonOut = <<>>
    /\ queried = <<>>
    /\ cmd = NoCmd
    /\ results = <<>>
    /\ runs \in [1..MaxRuns -> {NewRun(f, opts) : f \in RunFiles, opts \in RunOptions}]

\* Instance i: Extract up to GetSheetList
RunBegin(i) ==
    /\ runs[i].pc = "idle"
    /\ LET r == runs[i]
           props == extractDocumentProperties(r.file)
       IN  runs' = [runs EXCEPT ![i] =
              [r EXCEPT !.pc = "sheets",
                        !.metadata =
                           [Filename |-> r.file.filename,
                            Properties |-> IF props.err = NoError THEN props.v
                                           ELSE ZeroProperties,
                            Sheets |-> <<>>,
                            DefinedNames |-> IF r.options.IncludeDefinedNames
                                             THEN extractDefinedNames(r.file) ELSE <<>>,
                            Styles |-> EmptyMap,
                            ExtractedAt |-> now]]]
    /\ UNCHANGED <<results, file, now, options, pc, idx, metadata, decoded, scan, goOut, call, fsys,
                   ret, handle, quick, jsonOut, queried, cmd>>

\* Instance i: one iteration of the loop over the sheets; after the last one
\* the style scan starts, or Extract returns when styles are not wanted
RunSheet(i) ==
    /\ runs[i].pc = "sheets"
    /\ LET r == runs[i] IN
       IF r.idx < Len(r.file.sheets)
       THEN LET sm == extractSheetMetadata(rangeIndex(r.idx), r.file.sheets[r.idx + 1],
                                               r.options) IN
            runs' = [runs EXCEPT ![i] =
               [r EXCEPT !.idx = @ + 1,
                         !.metadata.Sheets = IF sm.err # NoError THEN @
                                             ELSE Append(@, sm.sheet)]]
       ELSE runs' = [runs EXCEPT ![i] =
               [r EXCEPT !.idx = 0,
                         !.pc = IF r.options.IncludeStyles THEN "styles" ELSE "done"]]
    /\ UNCHANGED <<results, file, now, options, pc, idx, metadata, decoded, scan, goOut, call, fsys,
                   ret, handle, quick, jsonOut, queried, cmd>>

\* Instance i: extractUniqueStyles, one sheet of its loop; after the last one
\* metadata.Styles is assigned and Extract returns
RunStyles(i) ==
    /\ runs[i].pc = "styles"
    /\ LET r == runs[i]
           acc == styleCache(runs, i)
       IN
       IF r.idx < Len(r.file.sheets)
       THEN LET sheet == r.file.sheets[r.idx + 1]
                rows == GetRows(sheet)
            IN  runs' = [runs EXCEPT ![i] =
                   [r EXCEPT !.idx = @ + 1,
                             !.cache = IF rows.err # NoError THEN acc
                                       ELSE stylesFromCells(r.file, sheet, rows.v, 0, 0, acc)]]
       ELSE runs' = [runs EXCEPT ![i] =
               [r EXCEPT !.pc = "done", !.metadata.Styles = r.cache.styles]]
    /\ UNCHANGED <<results, file, now, options, pc, idx, metadata, decoded, scan, goOut, call, fsys,
                   ret, handle, quick, jsonOut, queried, cmd>>

NextTwo == \E i \in 1..MaxRuns : RunBegin(i) \/ RunSheet(i) \/ RunStyles(i)

SpecTwo == InitTwo /\ [][NextTwo]_vars

-----------------------------------------------------------------------------
(* Extract on a sheet whose per-cell and per-picture queries may fail *)

MaxAnchors == 2

CellQueryNames == {"GetCellFormula", "GetCellStyle", "GetCellType", "GetCellHyperLink"}

\* The anchored addresses GetPictureCells may report: one picture, two
\* pictures, and an address GetPictures fails for
Anchors ==
    { [Picture(NilPtr) EXCEPT !.cell = "A1"],
      [cell |-> "B2", err |-> FALSE,
       pictures |-> <<[File |-> <<1>>, Extension |-> ".png", InsertType |-> 0,
                       Format |-> NilPtr],
                      [File |-> <<2>>, Extension |-> ".jpg", InsertType |-> 0,
                       Format |-> NilPtr]>>],
      [Picture(NilPtr) EXCEPT !.cell = "C3", !.err = TRUE] }

InitFail ==
    /\ \E fails \in SUBSET CellQueryNames, pics \in SeqsUpTo(Anchors, MaxAnchors) :
          file = Workbook(<<[RowsSheet("Sheet1",
                                       << <<[Rich EXCEPT !.fails = fails], Other>> >>, FALSE)
                               EXCEPT !.pics = pics]>>, {})
    /\ options = DefaultOptions
    /\ now = Time(10, 0)
    /\ Idle

SpecFail == InitFail /\ [][Next]_vars

-----------------------------------------------------------------------------
(* The extract command of the command-line program *)

\* The flags of the extract command; output is the path given with -o, empty
\* when there is none
ExtractFlags ==
    [output : {<<>>, <<"out", "/", "m", ".", "json">>}, pretty : BOOLEAN,
     maxCells : 0..MaxCap, noStyles : BOOLEAN, noImages : BOOLEAN]

\* options := &excelmetadata.Options{...} of handleExtract
flagOptions(flags) ==
    [IncludeCellData |-> TRUE, IncludeStyles |-> ~flags.noStyles,
     IncludeImages |-> ~flags.noImages, IncludeDefinedNames |-> TRUE,
     IncludeDataValidation |-> TRUE, MaxCellsPerSheet |-> flags.maxCells]

\* A line of text on standard output, as its pieces
Line(pieces) == [kind |-> "line", text |-> pieces]

\* The input files of the command: styled cells and a picture
CmdFiles ==
    { Workbook(<<[RowsSheet("Sheet1", << <<Rich, Other>>, <<Plain>> >>, FALSE)
                    EXCEPT !.pics = <<Picture(Ptr(GraphicOptions(Ptr(TRUE), Ptr(TRUE))))>>]>>,
               {}),
      Workbook(<<RowsSheet("Sheet1", << <<Plain>> >>, FALSE)>>, {}) }

InitCmd ==
    /\ file \in CmdFiles
    /\ options = DefaultOptions
    /\ now = Time(10, 0)
    /\ pc = "cmd"
    /\ idx = 0
    /\ metadata = NoMetadata
    /\ decoded = <<>>
    /\ scan = NoScan
    /\ goOut = <<>>
    /\ call = NoCall
    /\ fsys = EmptyDisk
    /\ ret = <<>>
    /\ handle = NoHandle
    /\ quick = NoQuick
    /\ jsonOut = <<>>
    /\ queried = <<>>
    /\ runs = <<>>
    /\ results = <<>>
    /\ \E flags \in ExtractFlags :
          cmd = [stage |-> "start", flags |-> flags, stdout |-> <<>>, err |-> <<>>]

\* handleExtract up to extractor.Extract(): the options from the flags, New
CmdExtract ==
    /\ pc = "cmd"
    /\ cmd.stage = "start"
    /\ options' = flagOptions(cmd.flags)
    /\ handle' = OpenHandle
    /\ cmd' = [cmd EXCEPT !.stage = "extracting"]
    /\ pc' = "idle"
    /\ UNCHANGED <<results, file, now, idx, metadata, decoded, scan, goOut, call, fsys, ret, quick,
                   jsonOut, queried, runs>>

\* handleExtract after Extract returned, no output file: the JSON text goes
\* to standard output
CmdPrint ==
    /\ pc = "done"
    /\ cmd.stage = "extracting"
    /\ cmd.flags.output = <<>>
    /\ cmd' = [cmd EXCEPT !.stage = "returned",
                          !.stdout = @ \o <<Line(<<"output file:", " ", "">>),
                                              jsonMarshal(metadata, cmd.flags.pretty)>>]
    /\ pc' = "cmdReturned"
    /\ UNCHANGED <<results, file, now, options, idx, metadata, decoded, scan, goOut, call, fsys, ret,
                   handle, quick, jsonOut, queried, runs>>

\* handleExtract after Extract returned, with an output file:
\* excelmetadata.QuickExtractToFile(inputFile, outputFile, pretty), that is
\* New(excelFile, DefaultOptions()) and ExtractToFile up to its e.Extract()
CmdSave ==
    /\ pc = "done"
    /\ cmd.stage = "extracting"
    /\ cmd.flags.output # <<>>
    /\ cmd' = [cmd EXCEPT !.stage = "saving",
                          !.stdout = Append(@, Line(<<"output file:", " ",
                                                      Cat(cmd.flags.output)>>))]
    /\ options' = DefaultOptions
    /\ call' = [path |-> cmd.flags.output, pretty |-> cmd.flags.pretty,
                ext |-> Ext(cmd.flags.output)]
    /\ metadata' = NoMetadata
    /\ idx' = 0
    /\ decoded' = <<>>
    /\ queried' = <<>>
    /\ pc' = "idle"
    /\ UNCHANGED <<results, file, now, scan, goOut, fsys, ret, handle, quick, jsonOut, runs>>

\* handleExtract after QuickExtractToFile returned
CmdSaved ==
    /\ pc = "returned"
    /\ cmd.stage = "saving"
    /\ cmd' = [cmd EXCEPT !.stage = "returned",
                          !.err = IF ret = <<>> THEN <<>>
                                  ELSE <<"failed to save to file: ">> \o ret,
                          !.stdout = IF ret = <<>>
                                     THEN Append(@, Line(<<"Metadata saved to ",
                                                           Cat(call.path)>>))
                                     ELSE @]
    /\ pc' = "cmdReturned"
    /\ UNCHANGED <<results, file, now, options, idx, metadata, decoded, scan, goOut, call, fsys, ret,
                   handle, quick, jsonOut, queried, runs>>

NextCmd ==
    \/ CmdExtract \/ ExtractBegin \/ ExtractSheet \/ ExtractStyles
    \/ CmdPrint \/ CmdSave \/ ExtractToFileWrite \/ CmdSaved

SpecCmd == InitCmd /\ [][NextCmd]_vars

-----------------------------------------------------------------------------
(* The search command of the command-line program *)

MaxFiles == 2

\* The characters of the sheet names and cell values of the model
Chars(str) ==
    CASE str = "Sheet1" -> <<"S", "h", "e", "e", "t", "1">>
      [] str = "Sheet2" -> <<"S", "h", "e", "e", "t", "2">>
      [] OTHER -> <<str>>

\* strings.Contains
Contains(str, substr) ==
    \E i \in 0..(Len(str) - Len(substr)) : SubSeq(str, i + 1, i + Len(substr)) = substr

\* searchInMetadata
searchInMetadata(m, pattern) ==
    IF pattern = <<>> THEN FALSE
    ELSE \E k \in 1..Len(m.Sheets) :
            \/ Contains(Chars(m.Sheets[k].Name), pattern)
            \/ \E n \in 1..Len(m.Sheets[k].Cells) :
                  Contains(Chars(m.Sheets[k].Cells[n].Value), pattern)

\* strings.ToLower, on the pieces of a file name
ToLower(piece) == IF piece = ".XLSX" THEN ".xlsx" ELSE piece

\* strings.HasSuffix(strings.ToLower(path), ".xlsx")
isExcelPath(name) == Len(name) > 0 /\ ToLower(name[Len(name)]) = ".xlsx"

\* The pattern "*.xlsx" of filepath.Glob: the name ends in .xlsx as written
globMatch(name) == Len(name) > 0 /\ name[Len(name)] = ".xlsx"

\* What a directory may hold, in the order of the names: workbooks, a file
\* that cannot be opened, a workbook named in capitals and another file
DirEntries ==
    { [rank |-> 1, name |-> <<"a", ".xlsx">>, isDir |-> FALSE, openErr |-> FALSE,
       book |-> Workbook(<<RowsSheet("Sheet1", << <<Rich, Other>> >>, FALSE)>>, {})],
      [rank |-> 2, name |-> <<"b", ".xlsx">>, isDir |-> FALSE, openErr |-> TRUE,
       book |-> Workbook(<<>>, {})],
      [rank |-> 3, name |-> <<"c", ".XLSX">>, isDir |-> FALSE, openErr |-> FALSE,
       book |-> Workbook(<<RowsSheet("Sheet1", << <<Plain>> >>, FALSE),
                           RowsSheet("Sheet2", <<>>, FALSE)>>, {})],
      [rank |-> 4, name |-> <<"d", ".xlsx">>, isDir |-> FALSE, openErr |-> FALSE,
       book |-> Workbook(<<RowsSheet("Sheet1", << <<Plain>> >>, FALSE)>>, {})],
      [rank |-> 5, name |-> <<"notes", ".txt">>, isDir |-> FALSE, openErr |-> TRUE,
       book |-> Workbook(<<>>, {})] }

RECURSIVE sorted(_)
\* The entries of a set, by name
sorted(S) ==
    IF S = {} THEN <<>>
    ELSE LET first == CHOOSE e \in S : \A o \in S : e.rank <= o.rank
         IN  <<first>> \o sorted(S \ {first})

\* The directory entry of the search directory itself
TheDir == [rank |-> 0, name |-> <<"dir">>, isDir |-> TRUE, openErr |-> TRUE,
           book |-> Workbook(<<>>, {})]

SearchPatterns == {<<>>, <<"y">>, <<"e", "e">>, <<"t", "2">>, <<"q">>}

InitSearch ==
    /\ file = Workbook(<<>>, {})
    /\ options = DefaultOptions
    /\ now = Time(10, 0)
    /\ pc = "cmd"
    /\ idx = 0
    /\ metadata = NoMetadata
    /\ decoded = <<>>
    /\ scan = NoScan
    /\ goOut = <<>>
    /\ call = NoCall
    /\ fsys = EmptyDisk
    /\ ret = <<>>
    /\ handle = NoHandle
    /\ quick = NoQuick
    /\ jsonOut = <<>>
    /\ queried = <<>>
    /\ runs = <<>>
    /\ results = <<>>
    /\ \E held \in {S \in SUBSET DirEntries : Cardinality(S) <= MaxFiles},
          pattern \in SearchPatterns, recursive \in BOOLEAN :
          cmd = [stage |-> "start",
                 flags |-> [pattern |-> pattern, recursive |-> recursive],
                 entries |-> sorted(held), todo |-> <<>>, stdout |-> <<>>, err |-> <<>>]

\* handleSearch up to the loop: the arguments are checked, then filepath.Walk
\* starts at the directory or filepath.Glob lists its *.xlsx entries; Walk
\* hands each entry with its FileInfo, the loop over the Glob result hands
\* walkFunc(file, nil, nil)
SearchBegin ==
    /\ pc = "cmd"
    /\ cmd.stage = "start"
    /\ IF cmd.flags.pattern = <<>>
       THEN cmd' = [cmd EXCEPT !.stage = "returned",
                               !.err = <<"please provide a search pattern">>]
       ELSE cmd' = [cmd EXCEPT
               !.stage = "searching",
               !.todo = IF cmd.flags.recursive
                        THEN [i \in 1..(Len(cmd.entries) + 1) |->
                                 [entry |-> IF i = 1 THEN TheDir ELSE cmd.entries[i - 1],
                                  info |-> Ptr(IF i = 1 THEN TRUE
                                               ELSE cmd.entries[i - 1].isDir)]]
                        ELSE LET files == SelectSeq(cmd.entries,
                                                    LAMBDA e : globMatch(e.name))
                             IN  [i \in 1..Len(files) |->
                                     [entry |-> files[i], info |-> NilPtr]]]
    /\ UNCHANGED <<results, file, now, options, pc, idx, metadata, decoded, scan, goOut, call, fsys,
                   ret, handle, quick, jsonOut, queried, runs>>

\* One call of walkFunc.  info.IsDir() on the nil FileInfo is a nil pointer
\* dereference: the program panics.  Otherwise QuickExtract(path); its error
\* is printed and the file skipped; a match is printed.
SearchFile ==
    /\ pc = "cmd"
    /\ cmd.stage = "searching"
    /\ Len(cmd.todo) > 0
    /\ LET visit == cmd.todo[1]
           entry == visit.entry
           rest == Tail(cmd.todo)
       IN  IF visit.info.isNil
           THEN cmd' = [cmd EXCEPT !.stage = "panicked"]
           ELSE IF visit.info.v \/ ~isExcelPath(entry.name)
                THEN cmd' = [cmd EXCEPT !.todo = rest]
                ELSE IF newFails(entry.openErr)
                     THEN cmd' = [cmd EXCEPT
                             !.todo = rest,
                             !.stdout = Append(@, Line(<<"Error processing ",
                                                         Cat(entry.name)>>))]
                     ELSE LET m == [Filename |-> Cat(entry.name),
                                    Properties |-> extractDocumentProperties(entry.book).v,
                                    Sheets |-> [k \in 1..Len(entry.book.sheets) |->
                                                   extractSheetMetadata(rangeIndex(k - 1),
                                                       entry.book.sheets[k],
                                                       DefaultOptions).sheet],
                                    DefinedNames |-> extractDefinedNames(entry.book),
                                    Styles |-> extractUniqueStyles(entry.book).styles,
                                    ExtractedAt |-> now]
                          IN  cmd' = [cmd EXCEPT
                                 !.todo = rest,
                                 !.stdout = IF searchInMetadata(m, cmd.flags.pattern)
                                            THEN Append(@, Line(<<"Match found in: ",
                                                                  Cat(entry.name)>>))
                                            ELSE @]
    /\ UNCHANGED <<results, file, now, options, pc, idx, metadata, decoded, scan, goOut, call, fsys,
                   ret, handle, quick, jsonOut, queried, runs>>

\* The loop is over: return nil
SearchReturn ==
    /\ pc = "cmd"
    /\ cmd.stage = "searching"
    /\ Len(cmd.todo) = 0
    /\ cmd' = [cmd EXCEPT !.stage = "returned"]
    /\ UNCHANGED <<results, file, now, options, pc, idx, metadata, decoded, scan, goOut, call, fsys,
                   ret, handle, quick, jsonOut, queried, runs>>

NextSearch == SearchBegin \/ SearchFile \/ SearchReturn

SpecSearch == InitSearch /\ [][NextSearch]_vars

-----------------------------------------------------------------------------
(* Operations one after another on one Extractor that is not closed *)

MaxOps == 2

\* The hour of the first call
FirstHour == 10

SeqPaths == {<<"m", ".", "json">>, <<"out", "/", "m", ".", "go">>, <<"m", ".", "txt">>}

InitSeq ==
    /\ file \in { Workbook(<<[RowsSheet("Sheet1", << <<Rich, Other>>, <<Plain>> >>, FALSE)
                                EXCEPT !.pics = <<Picture(NilPtr)>>]>>, {2}),
                  Workbook(<<RowsSheet("Sheet1", << <<Plain>> >>, TRUE),
                             RowsSheet("Sheet2", << <<Other>> >>, FALSE)>>, {}) }
    /\ options \in { DefaultOptions,
                     [DefaultOptions EXCEPT !.IncludeImages = FALSE, !.MaxCellsPerSheet = 1] }
    /\ now = Time(FirstHour, 0)
    /\ pc \in {"idle", "file"}
    /\ idx = 0
    /\ metadata = NoMetadata
    /\ decoded = <<>>
    /\ scan = NoScan
    /\ goOut = <<>>
    /\ call = NoCall
    /\ fsys = EmptyDisk
    /\ ret = <<>>
    /\ handle = OpenHandle
    /\ quick = NoQuick
    /\ jsonOut = <<>>
    /\ queried = <<>>
    /\ runs = <<>>
    /\ cmd = NoCmd
    /\ results = <<>>

SeqToFile == ExtractToFileAt(SeqPaths)

\* The caller goes on to its next call on the same Extractor, an hour later:
\* Extract, ExtractToJSON or ExtractToGO (all enter Extract), or ExtractToFile.
\* A plain Extract call has returned when the caller goes on from "done".
NextOperation ==
    /\ pc \in {"done", "returned", "jsonReturned"}
    /\ pc = "done" => call = NoCall
    /\ now.utc < FirstHour + MaxOps - 1
    /\ results' = IF pc = "done" THEN Append(results, metadata) ELSE results
    /\ now' = Time(now.utc + 1, now.offset)
    /\ pc' \in {"idle", "file"}
    /\ call' = NoCall
    /\ ret' = <<>>
    /\ UNCHANGED <<file, options, idx, metadata, decoded, scan, goOut, fsys, handle, quick,
                   jsonOut, queried, runs, cmd>>

NextSeq ==
    \/ ExtractBegin \/ ExtractSheet \/ ExtractStyles
    \/ MarshalGo \/ ExtractToJSON \/ SeqToFile \/ ExtractToFileWrite
    \/ NextOperation

SpecSeq == InitSeq /\ [][NextSeq]_vars

-----------------------------------------------------------------------------
(* The scanner on its own: one sheet, every grid within the bounds *)

ScanCells == {BlankStyled, Plain, Rich}
Grids == SeqsUpTo(SeqsUpTo(ScanCells, MaxCols), MaxRows)

InitScan ==
    /\ \E g \in Grids : file = Workbook(<<RowsSheet("Sheet1", g, FALSE)>>, {})
    /\ \E m \in 0..MaxCap : options = [DefaultOptions EXCEPT !.MaxCellsPerSheet = m]
    /\ now = Time(10, 0)
    /\ Idle

ScanSheet ==
    /\ pc = "idle"
    /\ scan' = extractCellData(file.sheets[1], options.MaxCellsPerSheet)
    /\ pc' = "scanned"
    /\ UNCHANGED <<results, cmd, runs, queried, file, options, now, idx, metadata, decoded, goOut, call, fsys, ret, handle, quick, jsonOut>>

NextScan == ScanSheet

SpecScan == InitScan /\ [][NextScan]_vars

-----------------------------------------------------------------------------
(* The cell scanner: cap, skipping, order *)

\* The positions (rowIdx, colIdx) of a sheet's non-empty values, and their
\* row-major order, stated without the scanner's loop.
NonEmptyPositions(sheet) ==
    UNION { { <<r, c>> : c \in {c \in 0..(Len(sheet.rows[r + 1]) - 1) :
                                   sheet.rows[r + 1][c + 1].value # ""} } :
            r \in 0..(Len(sheet.rows) - 1) }

RowMajorBefore(p, q) == p[1] < q[1] \/ (p[1] = q[1] /\ p[2] < q[2])

\* The i-th non-empty position in row-major order (i from 1)
NthNonEmpty(sheet, i) ==
    CHOOSE p \in NonEmptyPositions(sheet) :
        Cardinality({q \in NonEmptyPositions(sheet) : RowMajorBefore(q, p)}) = i - 1

\* r is the record of the i-th non-empty cell of the sheet
IsRecordOfNth(sheet, r, i) ==
    LET p == NthNonEmpty(sheet, i) IN
    /\ r.Address = ColumnNumberToName(p[2] + 1) \o ToString(p[1] + 1)
    /\ r.Value = sheet.rows[p[1] + 1][p[2] + 1].value

\* C1: with N non-empty cells and cap M, 0 < M < N: exactly the first M
\* non-empty cells in row-major order are returned and no per-address query
\* is issued for any later cell; M = 0: all N non-empty cells are returned.
C1_CapEnforced ==
    pc = "scanned" =>
        LET sheet == file.sheets[1]
            N == Cardinality(NonEmptyPositions(sheet))
            M == options.MaxCellsPerSheet
        IN  /\ (0 < M /\ M < N) =>
                /\ Len(scan.cells) = M
                /\ \A i \in 1..M : IsRecordOfNth(sheet, scan.cells[i], i)
                /\ \A k \in 1..Len(scan.queries) :
                     \E i \in 1..M : scan.queries[k].addr = scan.cells[i].Address
            /\ M = 0 =>
                /\ Len(scan.cells) = N
                /\ \A i \in 1..N : IsRecordOfNth(sheet, scan.cells[i], i)

\* A capped scan that stopped in front of a further non-empty cell, and an
\* uncapped scan of a sheet with an empty cell between two non-empty ones
C1_Witness ==
    /\ pc = "scanned"
    /\ options.MaxCellsPerSheet = 1
    /\ Cardinality(NonEmptyPositions(file.sheets[1])) = 3
    /\ Len(scan.cells) = 1
    /\ Len(scan.queries) = 4

\* C3: the cell sequence is strictly row-major: positions i < j come from
\* lexicographically increasing (row, column), no address occurs twice, and
\* each address is the column letter of column index + 1 followed by row
\* index + 1 of the position the record was scanned at.
C3_RowMajor ==
    pc = "scanned" =>
        /\ Len(scan.from) = Len(scan.cells)
        /\ \A i \in 1..Len(scan.cells) :
             /\ scan.from[i] = NthNonEmpty(file.sheets[1], i)
             /\ scan.cells[i].Address =
                  ColumnNumberToName(scan.from[i][2] + 1) \o ToString(scan.from[i][1] + 1)
        /\ \A i, j \in 1..Len(scan.cells) :
             i < j => /\ RowMajorBefore(scan.from[i], scan.from[j])
                      /\ scan.cells[i].Address # scan.cells[j].Address

\* Records from two rows, the second one starting behind an empty cell
C3_Witness ==
    /\ pc = "scanned"
    /\ Len(scan.cells) = 3
    /\ scan.cells[1].Address = "B1"
    /\ scan.cells[2].Address = "A2"
    /\ scan.cells[3].Address = "B2"

-----------------------------------------------------------------------------
(* Extract: the sheets and styles of one run *)

\* The addresses of the positions of a source sheet whose value is empty
EmptyValueAddresses(sheet) ==
    UNION { { ColumnNumberToName(c) \o ToString(r) :
                c \in {c \in 1..Len(sheet.rows[r]) : sheet.rows[r][c].value = ""} } :
            r \in 1..Len(sheet.rows) }

\* C2: every cell record of every sheet record has a non-empty value: a
\* source cell with an empty value has no record, whatever its formula,
\* style or hyperlink.
C2_NoEmptyCellRecord ==
    \A i \in 1..Len(metadata.Sheets) :
        LET rec == metadata.Sheets[i] IN
        \A j \in 1..Len(rec.Cells) :
            /\ rec.Cells[j].Value # ""
            /\ rec.Cells[j].Address \notin EmptyValueAddresses(file.sheets[rec.Index + 1])

\* A finished run over a sheet holding an empty-valued cell that has a
\* formula, a style and a hyperlink, between two cells that got records
C2_Witness ==
    /\ pc = "done"
    /\ Len(metadata.Sheets) >= 1
    /\ file.sheets[1].rows = << <<Plain, BlankStyled>>, <<Other>> >>
    /\ Len(metadata.Sheets[1].Cells) = 2

\* How often GetStyle was called for a style id during the run
DecodeCount(styleID) == Cardinality({k \in 1..Len(decoded) : decoded[k] = styleID})

\* C4: with styles enabled, the style decoder is invoked at most once for
\* every distinct style id, whether or not its decode succeeds.
C4_DecodedAtMostOnce ==
    options.IncludeStyles => \A styleID \in 0..2 : DecodeCount(styleID) <= 1

\* The sheet records Extract would emit were no sheet failing
SheetRecordOf(i) == extractSheetMetadata(i - 1, file.sheets[i], options).sheet

\* C5: a sheet one of whose extraction steps fails (reading its rows) does
\* not appear in Metadata.Sheets, every other sheet appears as it would
\* without the failure, and Extract returns successfully.
C5_FailedSheetDropped ==
    pc = "done" =>
        LET kept == {i \in 1..Len(file.sheets) : ~file.sheets[i].rowsErr} IN
        /\ Len(metadata.Sheets) = Cardinality(kept)
        /\ \A k \in 1..Len(metadata.Sheets) :
             /\ metadata.Sheets[k].Index + 1 \in kept
             /\ metadata.Sheets[k] = SheetRecordOf(metadata.Sheets[k].Index + 1)

-----------------------------------------------------------------------------
(* What an emitted literal denotes as a Go expression of a declared type *)

Invalid == [ok |-> FALSE]
Valid(v) == [ok |-> TRUE, v |-> v]

\* The declared fields of the exported structs: the fields marshalGo walks,
\* with their declared types
StructFields(t) == MarshalFields(t)

SliceTypeText(t) == IF t \in RecordSliceTypes THEN "[]excelmetadata." \o ElemType(t) ELSE t
SliceElemType(t) ==
    IF t \in RecordSliceTypes THEN ElemType(t) ELSE IF t = "[]string" THEN "string" ELSE "int"
MapTypeText(t) ==
    IF t = "map[int]StyleDetails" THEN "map[int]excelmetadata.StyleDetails" ELSE t
MapKeyType(t) == IF t = "map[string]float64" THEN "string" ELSE "int"
MapValType(t) == IF t = "map[int]StyleDetails" THEN "StyleDetails" ELSE "float64"

RECURSIVE GoEval(_, _)
GoEval(t, e) ==
    CASE t = "string" -> IF e.k = "quoted" THEN Valid(e.s) ELSE Invalid
      [] t = "bool" -> IF e.k = "bool" THEN Valid(e.b) ELSE Invalid
      [] t = "int" -> IF e.k = "int" THEN Valid(e.n) ELSE Invalid
      [] t = "float64" ->
           IF e.k = "float" THEN Valid(e.x)
           ELSE IF e.k = "int" THEN Valid(e.n * 64) ELSE Invalid
      [] t = "byte" -> IF e.k = "byte" THEN Valid(e.b) ELSE Invalid
      [] t = "excelize.CellType" -> IF e.k = "celltype" THEN Valid(e.n) ELSE Invalid
      [] t = "[]byte" ->
           IF e.k = "nil" THEN Valid(<<>>)
           ELSE IF e.k = "bytes" THEN Valid(e.bs) ELSE Invalid
      [] t = "time.Time" ->
           \* time.Date(y, m, d, h, ..., time.UTC) is the instant with that UTC reading
           IF e.k = "date" /\ e.loc = "time.UTC" /\ e.args[1] = 2024 /\ e.args[2] = 1
           THEN Valid(Time((e.args[3] - 1) * 24 + e.args[4], 0))
           ELSE Invalid
      [] t \in {"*string", "*bool"} ->
           \* an identifier, a bare word or a bool is no expression of pointer type
           IF e.k = "nil" THEN Valid(NilPtr) ELSE Invalid
      [] t \in RecordPointerTypes ->
           IF e.k = "nil" THEN Valid(NilPtr)
           ELSE IF e.k = "addr"
                THEN LET r == GoEval(ElemType(t), e.e) IN
                     IF r.ok THEN Valid(Ptr(r.v)) ELSE Invalid
                ELSE Invalid
      [] t \in RecordSliceTypes \cup {"[]string", "[]int"} ->
           IF e.k = "nil" THEN Valid(<<>>)
           ELSE IF e.k = "slice" /\ e.type = SliceTypeText(t)
                THEN LET rs == [i \in 1..Len(e.elems) |-> GoEval(SliceElemType(t), e.elems[i])]
                     IN  IF \A i \in 1..Len(rs) : rs[i].ok
                         THEN Valid([i \in 1..Len(rs) |-> rs[i].v])
                         ELSE Invalid
                ELSE Invalid
      [] t \in {"map[int]float64", "map[string]float64", "map[int]StyleDetails"} ->
           IF e.k = "nil" THEN Valid(EmptyMap)
           ELSE IF e.k = "map" /\ e.type = MapTypeText(t)
                THEN LET n  == Len(e.entries)
                         ks == [i \in 1..n |-> GoEval(MapKeyType(t), e.entries[i].key)]
                         vs == [i \in 1..n |-> GoEval(MapValType(t), e.entries[i].val)]
                     IN  IF /\ \A i \in 1..n : ks[i].ok /\ vs[i].ok
                            /\ \A i, j \in 1..n : ks[i].v = ks[j].v => i = j
                         THEN Valid([k \in {ks[i].v : i \in 1..n} |->
                                       vs[CHOOSE i \in 1..n : ks[i].v = k].v])
                         ELSE Invalid
                ELSE Invalid
      [] t \in StructTypes ->
           LET decl == StructFields(t) IN
           IF /\ e.k = "comp"
              /\ e.type = "excelmetadata." \o t
              /\ Len(e.fields) = Len(decl)
              /\ \A i \in 1..Len(decl) : e.fields[i].name = decl[i][1]
           THEN LET rs == [i \in 1..Len(decl) |-> GoEval(decl[i][2], e.fields[i].e)]
                IN  IF \A i \in 1..Len(rs) : rs[i].ok
                    THEN Valid([n \in {decl[i][1] : i \in 1..Len(decl)} |->
                                  rs[CHOOSE i \in 1..Len(decl) : decl[i][1] = n].v])
                    ELSE Invalid
           ELSE Invalid

\* The same Metadata with its instant written as a UTC reading
SameInstant(m) == [m EXCEPT !.ExtractedAt = Time(m.ExtractedAt.utc, 0)]

RECURSIVE PointersAsPointers(_, _, _)
\* Every pointer field below val is nil when absent and, when present, the
\* address of the encoding of its pointee
PointersAsPointers(t, val, e) ==
    CASE t \in RecordPointerTypes ->
           IF val.isNil THEN e = NilLit
           ELSE /\ e.k = "addr"
                /\ PointersAsPointers(ElemType(t), val.v, e.e)
      [] t = "*string" ->
           IF val.isNil THEN e = NilLit ELSE e.k = "addr" /\ e.e = Quoted(val.v)
      [] t = "*bool" ->
           IF val.isNil THEN e = NilLit ELSE e.k = "addr" /\ e.e = BoolLit(val.v)
      [] t \in RecordSliceTypes ->
           \/ Len(val) = 0
           \/ /\ e.k = "slice"
              /\ Len(e.elems) = Len(val)
              /\ \A i \in 1..Len(val) : PointersAsPointers(ElemType(t), val[i], e.elems[i])
      [] t = "map[int]StyleDetails" ->
           \/ DOMAIN val = {}
           \/ /\ e.k = "map"
              /\ \A i \in 1..Len(e.entries) :
                   PointersAsPointers("StyleDetails", val[e.entries[i].key.n], e.entries[i].val)
      [] t \in StructTypes ->
           /\ e.k = "comp"
           /\ \A i \in 1..Len(e.fields) :
                PointersAsPointers(StructFields(t)[i][2], val[e.fields[i].name], e.fields[i].e)
      [] OTHER -> TRUE

RECURSIVE TextsQuoted(_, _, _)
\* Every text below val is a quoted literal and every []byte a byte array
TextsQuoted(t, val, e) ==
    CASE t = "string" -> e = Quoted(val)
      [] t = "*string" ->
           \/ val.isNil
           \/ e = Quoted(val.v)
           \/ e.k = "addr" /\ e.e = Quoted(val.v)
      [] t = "[]byte" -> Len(val) = 0 \/ e = ByteSlice(val)
      [] t = "[]string" ->
           \/ Len(val) = 0
           \/ e.k = "slice" /\ e.elems = [i \in 1..Len(val) |-> Quoted(val[i])]
      [] t = "map[string]float64" ->
           \/ DOMAIN val = {}
           \/ /\ e.k = "map"
              /\ \A i \in 1..Len(e.entries) :
                   e.entries[i].key.k = "quoted" /\ e.entries[i].key.s \in DOMAIN val
      [] t \in RecordPointerTypes ->
           \/ val.isNil
           \/ e.k = "addr" /\ TextsQuoted(ElemType(t), val.v, e.e)
      [] t \in RecordSliceTypes ->
           \/ Len(val) = 0
           \/ /\ e.k = "slice"
              /\ Len(e.elems) = Len(val)
              /\ \A i \in 1..Len(val) : TextsQuoted(ElemType(t), val[i], e.elems[i])
      [] t = "map[int]StyleDetails" ->
           \/ DOMAIN val = {}
           \/ /\ e.k = "map"
              /\ \A i \in 1..Len(e.entries) :
                   TextsQuoted("StyleDetails", val[e.entries[i].key.n], e.entries[i].val)
      [] t \in StructTypes ->
           /\ e.k = "comp"
           /\ \A i \in 1..Len(e.fields) :
                TextsQuoted(StructFields(t)[i][2], val[e.fields[i].name], e.fields[i].e)
      [] OTHER -> TRUE

\* C6: two ExtractToGO calls that encoded equal Metadata values returned
\* byte-identical text: the entries of every map come out in one fixed order.
C6_EncodingDeterministic ==
    \A i, j \in 1..Len(goOut) :
        goOut[i].of = goOut[j].of => goOut[i].text = goOut[j].text

\* C7: the literal ExtractToGO returned, compiled and evaluated, is a Metadata
\* equal to the encoded one, its ExtractedAt the same instant.
C7_LiteralDenotesMetadata ==
    \A i \in 1..Len(goOut) :
        GoEval("Metadata", goOut[i].tree) = Valid(SameInstant(goOut[i].of))

\* C8: in the returned literal every optional (pointer) field is nil when it
\* is absent and an expression of pointer type holding the full encoding of
\* its pointee when it is present.
C8_PointerFieldsEncoded ==
    \A i \in 1..Len(goOut) : PointersAsPointers("Metadata", goOut[i].of, goOut[i].tree)

\* C9: in the returned literal every text value, the validation's ErrorTitle
\* and ErrorMessage included, is a quoted and escaped string literal, and the
\* bytes of an image are an explicit byte array.
C9_TextsQuotedBytesExplicit ==
    \A i \in 1..Len(goOut) : TextsQuoted("Metadata", goOut[i].of, goOut[i].tree)

EndsWith(p, suffix) ==
    Len(p) >= Len(suffix) /\ SubSeq(p, Len(p) - Len(suffix) + 1, Len(p)) = suffix

\* C10: ExtractToFile selects the encoding by the extension of the output
\* path: a path ending in ".json" is written as the JSON document, indented
\* exactly when pretty is set; a path ending in ".go" is written as the
\* literal-reconstruction program; with any other ending, or none, the call
\* returns the unsupported-file error and writes nothing.
C10_ExtensionDispatch ==
    pc = "returned" /\ call # NoCall =>
        IF EndsWith(call.path, <<".", "json">>)
        THEN /\ ret # <<>> => ret[1] # "unsupported "
             /\ ret = <<>> =>
                  /\ Len(fsys.files) = 1
                  /\ fsys.files[1].path = call.path
                  /\ fsys.files[1].data.kind = "json"
                  /\ fsys.files[1].data.of = metadata
                  /\ fsys.files[1].data.indent = "" <=> ~call.pretty
        ELSE IF EndsWith(call.path, <<".", "go">>)
             THEN /\ ret # <<>> => ret[1] # "unsupported "
                  /\ ret = <<>> =>
                       /\ Len(fsys.files) = 1
                       /\ fsys.files[1].path = call.path
                       /\ fsys.files[1].data.kind = "go"
                       /\ \E ord \in RangeOrders :
                            fsys.files[1].data.text
                              = goProgram(marshalGo("Metadata", metadata, ord))
             ELSE /\ Len(ret) = 3 /\ ret[1] = "unsupported " /\ ret[3] = " file"
                  /\ fsys = EmptyDisk
                  /\ metadata = NoMetadata

\* A pretty call on the path /.json returned nil with the file written
C10_Witness ==
    /\ pc = "returned"
    /\ ret = <<>>
    /\ call.pretty
    /\ call.path = <<"/", ".", "json">>
    /\ fsys.dirs = <<"/">>
    /\ Len(fsys.files) = 1

\* A step of Extract: each of them queries the source handle
QueryStep == ExtractBegin \/ ExtractSheet \/ ExtractStyles

\* C11: a Quick* call that opened the source handle has closed it exactly
\* once when it returns, whatever the operation returned (a value, the
\* unsupported-extension error, a directory or a write error), and no query
\* is issued on the handle unless it is open.
C11_ClosedExactlyOnce ==
    /\ [](pc = "quickReturned" /\ ~quick.openErr =>
            handle = [state |-> "closed", opens |-> 1, closes |-> 1])
    /\ [][QueryStep => handle.state = "open"]_vars

\* QuickExtractToFile returned a write error after the handle was closed once
C11_Witness ==
    /\ pc = "quickReturned"
    /\ quick.fn = "QuickExtractToFile"
    /\ quick.err # <<>> /\ quick.err[1] = "open "
    /\ handle.closes = 1
    /\ metadata # NoMetadata

-----------------------------------------------------------------------------
(* json.Unmarshal of a document into a value of a declared type *)

Significant(toks) == SelectSeq(toks, LAMBDA tk : tk.k # "ws")

Bad == [ok |-> FALSE, v |-> <<>>, pos |-> 0]
Got(v, pos) == [ok |-> TRUE, v |-> v, pos |-> pos]
IsPunct(toks, pos, c) == pos <= Len(toks) /\ toks[pos].k = "punct" /\ toks[pos].s = c

\* The text an escaped JSON string denotes
jsonUnescape(text) ==
    IF text = "\\ufffd.xlsx" THEN ReplacedName
    ELSE IF text = "say \\\"no\\\"" THEN "say \"no\""
    ELSE IF text = "\\\"a,b\\\"" THEN "\"a,b\""
    ELSE text

parseNumber(str) == CHOOSE n \in 0..99 : TwoDigits(n) = str \/ ToString(n) = str

\* time.Parse(time.RFC3339, ...): the instant, with the zone of the text
parseTime(pieces) ==
    LET local  == (parseNumber(pieces[2]) - 1) * 24 + parseNumber(pieces[4])
        offset == IF pieces[6] = "Z" THEN 0
                  ELSE CHOOSE o \in 1..14 : pieces[6] = "+" \o TwoDigits(o) \o ":00"
    IN  Time(local - offset, offset)

base64Index(c) == IF c = "=" THEN 0 ELSE (CHOOSE j \in 1..64 : B64[j] = c) - 1

RECURSIVE unbase64From(_, _)
unbase64From(chars, i) ==
    IF i + 3 > Len(chars) THEN <<>>
    ELSE LET i1 == base64Index(chars[i])
             i2 == base64Index(chars[i + 1])
             i3 == base64Index(chars[i + 2])
             i4 == base64Index(chars[i + 3])
         IN  <<i1 * 4 + (i2 \div 16)>>
             \o (IF chars[i + 2] = "=" THEN <<>> ELSE <<(i2 % 16) * 16 + (i3 \div 4)>>)
             \o (IF chars[i + 3] = "=" THEN <<>> ELSE <<(i3 % 4) * 64 + i4>>)
             \o unbase64From(chars, i + 4)

RECURSIVE ZeroValue(_)
ZeroValue(t) ==
    CASE t \in {"string", "interface{}"} -> ""
      [] t = "bool" -> FALSE
      [] t \in {"int", "float64", "byte", "excelize.CellType"} -> 0
      [] t = "time.Time" -> ZeroTime
      [] t \in RecordPointerTypes \cup {"*string", "*bool"} -> NilPtr
      [] t \in RecordSliceTypes \cup {"[]string", "[]int", "[]byte"} -> <<>>
      [] t \in {"map[int]float64", "map[string]float64", "map[int]StyleDetails"} -> EmptyMap
      [] t \in StructTypes ->
           LET fields == JsonFields(t) IN
           [n \in {fields[i][1] : i \in 1..Len(fields)} |->
              ZeroValue((CHOOSE f \in {fields[i] : i \in 1..Len(fields)} : f[1] = n)[3])]

RECURSIVE jsonDecode(_, _, _)
RECURSIVE decodeElems(_, _, _, _)
RECURSIVE decodeEntries(_, _, _, _)
RECURSIVE decodeMembers(_, _, _, _)

jsonDecode(t, toks, pos) ==
    IF pos > Len(toks) THEN Bad
    ELSE LET tk == toks[pos] IN
    IF tk.k = "null" THEN Got(ZeroValue(t), pos + 1)
    ELSE
    CASE t \in {"string", "interface{}"} ->
           IF tk.k = "str" THEN Got(jsonUnescape(tk.s[1]), pos + 1) ELSE Bad
      [] t = "bool" -> IF tk.k = "bool" THEN Got(tk.b, pos + 1) ELSE Bad
      [] t \in {"int", "byte", "excelize.CellType"} ->
           IF tk.k = "int" THEN Got(tk.n, pos + 1) ELSE Bad
      [] t = "float64" ->
           IF tk.k = "float" THEN Got(tk.x, pos + 1)
           ELSE IF tk.k = "int" THEN Got(tk.n * 64, pos + 1) ELSE Bad
      [] t = "time.Time" ->
           IF tk.k = "str" /\ Len(tk.s) = 6 THEN Got(parseTime(tk.s), pos + 1) ELSE Bad
      [] t = "[]byte" -> IF tk.k = "str" THEN Got(unbase64From(tk.s, 1), pos + 1) ELSE Bad
      [] t = "*string" ->
           IF tk.k = "str" THEN Got(Ptr(jsonUnescape(tk.s[1])), pos + 1) ELSE Bad
      [] t = "*bool" -> IF tk.k = "bool" THEN Got(Ptr(tk.b), pos + 1) ELSE Bad
      [] t \in RecordPointerTypes ->
           LET r == jsonDecode(ElemType(t), toks, pos) IN
           IF r.ok THEN Got(Ptr(r.v), r.pos) ELSE Bad
      [] t \in RecordSliceTypes \cup {"[]string", "[]int"} ->
           IF ~IsPunct(toks, pos, "[") THEN Bad
           ELSE IF IsPunct(toks, pos + 1, "]") THEN Got(<<>>, pos + 2)
           ELSE decodeElems(SliceElemType(t), toks, pos + 1, <<>>)
      [] t \in {"map[int]float64", "map[string]float64", "map[int]StyleDetails"} ->
           IF ~IsPunct(toks, pos, "{") THEN Bad
           ELSE IF IsPunct(toks, pos + 1, "}") THEN Got(EmptyMap, pos + 2)
           ELSE decodeEntries(t, toks, pos + 1, EmptyMap)
      [] t \in StructTypes ->
           IF ~IsPunct(toks, pos, "{") THEN Bad
           ELSE IF IsPunct(toks, pos + 1, "}") THEN Got(ZeroValue(t), pos + 2)
           ELSE decodeMembers(t, toks, pos + 1, ZeroValue(t))

\* The elements of an array up to its closing bracket
decodeElems(et, toks, pos, acc) ==
    LET r == jsonDecode(et, toks, pos) IN
    IF ~r.ok THEN Bad
    ELSE IF IsPunct(toks, r.pos, ",") THEN decodeElems(et, toks, r.pos + 1, Append(acc, r.v))
    ELSE IF IsPunct(toks, r.pos, "]") THEN Got(Append(acc, r.v), r.pos + 1)
    ELSE Bad

\* The entries of a map up to its closing brace
decodeEntries(t, toks, pos, acc) ==
    IF ~(pos + 1 <= Len(toks) /\ toks[pos].k = "str" /\ IsPunct(toks, pos + 1, ":")) THEN Bad
    ELSE LET key == IF MapKeyType(t) = "string" THEN jsonUnescape(toks[pos].s[1])
                    ELSE parseNumber(toks[pos].s[1])
             r   == jsonDecode(MapValType(t), toks, pos + 2)
         IN  IF ~r.ok THEN Bad
             ELSE IF IsPunct(toks, r.pos, ",")
                  THEN decodeEntries(t, toks, r.pos + 1, MapPut(acc, key, r.v))
             ELSE IF IsPunct(toks, r.pos, "}") THEN Got(MapPut(acc, key, r.v), r.pos + 1)
             ELSE Bad

\* The members of an object up to its closing brace, each stored in the field
\* with that key; the documents of json.Marshal hold no other key
decodeMembers(t, toks, pos, acc) ==
    IF ~(pos + 1 <= Len(toks) /\ toks[pos].k = "str" /\ IsPunct(toks, pos + 1, ":")) THEN Bad
    ELSE LET fields == JsonFields(t)
             known  == {i \in 1..Len(fields) : fields[i][2] = toks[pos].s[1]}
         IN  IF known = {} THEN Bad
             ELSE LET f == fields[CHOOSE i \in known : TRUE]
                      r == jsonDecode(f[3], toks, pos + 2)
                  IN  IF ~r.ok THEN Bad
                      ELSE IF IsPunct(toks, r.pos, ",")
                           THEN decodeMembers(t, toks, r.pos + 1, [acc EXCEPT ![f[1]] = r.v])
                      ELSE IF IsPunct(toks, r.pos, "}")
                           THEN Got([acc EXCEPT ![f[1]] = r.v], r.pos + 1)
                      ELSE Bad

Unmarshal(t, text) ==
    LET toks == Significant(text)
        r    == jsonDecode(t, toks, 1)
    IN  IF r.ok /\ r.pos = Len(toks) + 1 THEN Valid(r.v) ELSE Invalid

\* C13: decoding the JSON document ExtractToJSON returned gives a Metadata
\* equal to the encoded one, and the compact and the indented document of
\* equal Metadata values decode to the same value.
C13_JsonRoundTrip ==
    /\ \A i \in 1..Len(jsonOut) :
         Unmarshal("Metadata", jsonOut[i].text) = Valid(jsonOut[i].of)
    /\ \A i, j \in 1..Len(jsonOut) :
         jsonOut[i].of = jsonOut[j].of =>
            Unmarshal("Metadata", jsonOut[i].text) = Unmarshal("Metadata", jsonOut[j].text)

\* How often key is the key of a member in the document
KeyCount(text, key) ==
    LET toks == Significant(text) IN
    Cardinality({p \in 1..(Len(toks) - 1) :
                    toks[p].k = "str" /\ toks[p].s = <<key>> /\ IsPunct(toks, p + 1, ":")})

RECURSIVE SumOver(_, _)
SumOver(f, n) == IF n = 0 THEN 0 ELSE f[n] + SumOver(f, n - 1)

\* How many records of the sheets' field satisfy P
CountIn(m, field, P(_)) ==
    SumOver([i \in 1..Len(m.Sheets) |->
               Cardinality({j \in 1..Len(m.Sheets[i][field]) : P(m.Sheets[i][field][j])})],
            Len(m.Sheets))

\* C14: in the JSON document ExtractToJSON returned no member is null: an
\* absent or empty optional field has no member at all (the format and the
\* bytes of an image record, the error title of a validation), while every
\* data validation has its showError member, also when it is false.
C14_AbsentOmittedNotNull ==
    \A i \in 1..Len(jsonOut) :
        LET m == jsonOut[i].of
            text == jsonOut[i].text
        IN  /\ \A p \in 1..Len(text) : text[p].k # "null"
            /\ KeyCount(text, "format") = CountIn(m, "Images", LAMBDA r : ~r.Format.isNil)
            /\ KeyCount(text, "file") = CountIn(m, "Images", LAMBDA r : Len(r.File) > 0)
            /\ KeyCount(text, "errorTitle")
                 = CountIn(m, "DataValidations", LAMBDA r : ~r.ErrorTitle.isNil)
            /\ KeyCount(text, "showError") = CountIn(m, "DataValidations", LAMBDA r : TRUE)

\* The source sheet has no used row, or only rows without columns
NoUsedCell(sheet) == \A r \in 1..Len(sheet.rows) : Len(sheet.rows[r]) = 0

\* C15: the record of a sheet with zero used rows, or with rows that all
\* have zero columns, has the dimensions A1, A1, 0, 0 and no cell records.
C15_EmptySheetDimensions ==
    \A i \in 1..Len(metadata.Sheets) :
        LET rec == metadata.Sheets[i]
            sheet == file.sheets[rec.Index + 1]
        IN  (~sheet.rowsErr /\ NoUsedCell(sheet)) =>
               /\ rec.Dimensions =
                    [StartCell |-> "A1", EndCell |-> "A1", RowCount |-> 0, ColCount |-> 0]
               /\ rec.Cells = <<>>

\* A finished run with cell data over a sheet without rows and a sheet of
\* two rows without columns
C15_Witness ==
    /\ pc = "done"
    /\ options.IncludeCellData
    /\ Len(metadata.Sheets) = 2
    /\ file.sheets[1].rows = <<>> /\ ~file.sheets[1].rowsErr
    /\ file.sheets[2].rows = << <<>>, <<>> >> /\ ~file.sheets[2].rowsErr
    /\ metadata.Sheets[2].Dimensions.RowCount = 0

\* The style ids carried by the cell positions of the rows GetRows reports
CarriedStyles ==
    UNION { UNION { {file.sheets[i].rows[r][c].style : c \in 1..Len(file.sheets[i].rows[r])} :
                    r \in 1..Len(file.sheets[i].rows) } :
            i \in {i \in 1..Len(file.sheets) : ~file.sheets[i].rowsErr} }

\* C16: style id 0 is never passed to the style decoder and is never a key
\* of Metadata.Styles; every key is a non-zero id carried by a cell position
\* within the used rows of a sheet.
C16_NoStyleZero ==
    /\ \A k \in 1..Len(decoded) : decoded[k] # 0
    /\ \A styleID \in DOMAIN metadata.Styles : styleID # 0 /\ styleID \in CarriedStyles

\* A finished run with styles over a sheet holding a cell of style 0 next to
\* a cell whose style was decoded
C16_Witness ==
    /\ pc = "done"
    /\ options.IncludeStyles
    /\ 0 \in CarriedStyles
    /\ DOMAIN metadata.Styles = {1, 2}
    /\ Len(decoded) = 2

\* The style ids whose decoding was attempted and failed
FailedStyles == {decoded[k] : k \in 1..Len(decoded)} \cap file.styleErr

\* The cell records of the result that came from a position carrying style s
RecordsOfStyle(s) ==
    { kn \in UNION { {<<k, n>> : n \in 1..Len(metadata.Sheets[k].Cells)} :
                     k \in 1..Len(metadata.Sheets) } :
        LET k == kn[1]
            n == kn[2]
        IN
        /\ \E i \in 1..Len(file.sheets) :
             /\ file.sheets[i].name = metadata.Sheets[k].Name
             /\ \E r \in 1..Len(file.sheets[i].rows) :
                  \E c \in 1..Len(file.sheets[i].rows[r]) :
                     /\ cellAddr(r - 1, c - 1) = metadata.Sheets[k].Cells[n].Address
                     /\ file.sheets[i].rows[r][c].style = s }

\* C17: when decoding style s fails, s is not a key of Metadata.Styles, Extract
\* still succeeds, the cell records of that style keep StyleID = s, and every
\* other entry of Metadata.Styles is the one a workbook whose styles all
\* decode gives.
C17_FailedStyleOmitted ==
    pc = "done" /\ options.IncludeStyles =>
        LET ref == extractUniqueStyles([file EXCEPT !.styleErr = {}]).styles IN
        \A s \in FailedStyles :
            /\ s \notin DOMAIN metadata.Styles
            /\ metadata # NoMetadata
            /\ \A kn \in RecordsOfStyle(s) :
                   metadata.Sheets[kn[1]].Cells[kn[2]].StyleID = s
            /\ DOMAIN metadata.Styles = DOMAIN ref \ file.styleErr
            /\ \A t \in DOMAIN metadata.Styles : metadata.Styles[t] = ref[t]

\* A finished run where style 1 failed to decode, a cell record of that style
\* was extracted and style 2 was decoded
C17_Witness ==
    /\ pc = "done"
    /\ options.IncludeStyles
    /\ FailedStyles = {1}
    /\ RecordsOfStyle(1) # {}
    /\ DOMAIN metadata.Styles = {2}

\* The options with every inclusion flag set and the same cell cap
AllIncluded(opts) ==
    [opts EXCEPT !.IncludeCellData = TRUE, !.IncludeStyles = TRUE, !.IncludeImages = TRUE,
                 !.IncludeDefinedNames = TRUE, !.IncludeDataValidation = TRUE]

\* A sheet record with the components of the cleared flags emptied
Gated(sheet, opts) ==
    [sheet EXCEPT !.Cells = IF opts.IncludeCellData THEN @ ELSE <<>>,
                  !.Images = IF opts.IncludeImages THEN @ ELSE <<>>,
                  !.DataValidations = IF opts.IncludeDataValidation THEN @ ELSE <<>>]

\* C18: each inclusion flag gates its component (defined names, styles and
\* the style decoder, cells, images and the picture queries, validations),
\* and a cleared flag changes no other field: the result is the one all flags
\* set give, with the gated components emptied.
C18_FlagsGateComponents ==
    pc = "done" =>
        /\ ~options.IncludeDefinedNames => metadata.DefinedNames = <<>>
        /\ ~options.IncludeStyles => metadata.Styles = EmptyMap /\ decoded = <<>>
        /\ ~options.IncludeCellData =>
              \A k \in 1..Len(metadata.Sheets) : metadata.Sheets[k].Cells = <<>>
        /\ ~options.IncludeImages =>
              /\ \A k \in 1..Len(metadata.Sheets) : metadata.Sheets[k].Images = <<>>
              /\ queried = <<>>
        /\ ~options.IncludeDataValidation =>
              \A k \in 1..Len(metadata.Sheets) : metadata.Sheets[k].DataValidations = <<>>
        /\ LET props == extractDocumentProperties(file) IN
           /\ metadata.Filename = file.filename
           /\ metadata.ExtractedAt = now
           /\ metadata.Properties = IF props.err = NoError THEN props.v ELSE ZeroProperties
           /\ metadata.DefinedNames =
                 IF options.IncludeDefinedNames THEN extractDefinedNames(file) ELSE <<>>
           /\ metadata.Styles =
                 IF options.IncludeStyles THEN extractUniqueStyles(file).styles ELSE EmptyMap
           /\ Len(metadata.Sheets) = Len(file.sheets)
           /\ \A k \in 1..Len(metadata.Sheets) :
                 metadata.Sheets[k] =
                     Gated(extractSheetMetadata(k - 1, file.sheets[k],
                                                AllIncluded(options)).sheet, options)

\* A finished run with only IncludeImages cleared, over a sheet that has a
\* picture, a validation and styled cells, all but the picture extracted
C18_Witness ==
    /\ pc = "done"
    /\ ~options.IncludeImages
    /\ options.IncludeCellData /\ options.IncludeStyles
    /\ options.IncludeDefinedNames /\ options.IncludeDataValidation
    /\ Len(file.sheets[1].pics) = 1
    /\ metadata.Sheets[1].Images = <<>>
    /\ Len(metadata.Sheets[1].DataValidations) = 1
    /\ metadata.Sheets[1].Cells # <<>>
    /\ DOMAIN metadata.Styles = {1, 2}
    /\ metadata.DefinedNames # <<>>

\* C19: when the source file cannot be opened, New returns an error and no
\* Extractor, each Quick* function returns that error with no metadata and no
\* text, QuickExtractToFile makes no directory and writes no file, and Close
\* is never called.
C19_OpenFailureAborts ==
    quick.openErr =>
        /\ pc = "quickReturned"
        /\ quick.err = <<"failed to open file: ", "open error">>
        /\ quick.value = <<>>
        /\ handle = NoHandle
        /\ metadata = NoMetadata /\ goOut = <<>> /\ jsonOut = <<>>
        /\ queried = <<>> /\ decoded = <<>>
        /\ fsys = EmptyDisk /\ call = NoCall /\ ret = <<>>

\* QuickExtractToFile has returned after the open failed
C19_Witness ==
    /\ quick.fn = "QuickExtractToFile"
    /\ quick.openErr
    /\ pc = "quickReturned"
    /\ quick.err # <<>>
    /\ handle.closes = 0

\* The positions of the calls of op in the log of the disk
OpsOf(op) == {i \in 1..Len(fsys.ops) : fsys.ops[i].op = op}

\* C20: for an output path with a supported extension, ExtractToFile makes the
\* parent directory of the path, with its missing ancestors, before it writes
\* the file; when the directory cannot be made, the file is not written and
\* the error is returned.
C20_DirectoryBeforeFile ==
    pc = "returned" /\ call.ext \in {".json", ".go"} =>
        LET chain == dirChain(call.path) IN
        /\ \A w \in OpsOf("WriteFile") :
              /\ \E d \in OpsOf("MkdirAll") :
                    d < w /\ ~fsys.ops[d].failed /\ fsys.ops[d].path = Dir(call.path)
              /\ \A k \in 1..Len(chain) : \E i \in 1..Len(fsys.dirs) : fsys.dirs[i] = chain[k]
        /\ fsys.files # <<>> => OpsOf("WriteFile") # {}
        /\ ret = <<>> => Len(fsys.files) = 1 /\ fsys.files[1].path = call.path
        /\ \A d \in OpsOf("MkdirAll") :
              fsys.ops[d].failed =>
                  /\ fsys.files = <<>>
                  /\ OpsOf("WriteFile") = {}
                  /\ Len(ret) = 2 /\ ret[1] = "mkdir "

\* The file x/x/.json was written after the directories x and x/x were made
C20_Witness ==
    /\ pc = "returned"
    /\ call.path = <<"x", "/", "x", "/", ".", "json">>
    /\ ret = <<>>
    /\ fsys.dirs = <<"x", "x/x">>
    /\ Len(fsys.files) = 1
    /\ Len(fsys.ops) = 2

\* MkdirAll failed on x/x after x was made: nothing was written
C20_WitnessFailure ==
    /\ pc = "returned"
    /\ call.path = <<"x", "/", "x", "/", ".", "json">>
    /\ ret = <<"mkdir ", "x/x">>
    /\ fsys.dirs = <<"x">>
    /\ fsys.files = <<>>

\* C21: when reading the document properties fails, every field of
\* Metadata.Properties is empty, and Extract returns with the defined names,
\* sheets and styles of a workbook whose properties are readable.
C21_PropertiesFailureLocal ==
    pc = "done" /\ file.propsErr =>
        LET readable == [file EXCEPT !.propsErr = FALSE] IN
        /\ \A field \in DOMAIN metadata.Properties : metadata.Properties[field] = ""
        /\ metadata.Filename = readable.filename
        /\ metadata.ExtractedAt = now
        /\ metadata.DefinedNames =
              IF options.IncludeDefinedNames THEN extractDefinedNames(readable) ELSE <<>>
        /\ metadata.Sheets =
              [k \in 1..Len(readable.sheets) |->
                  extractSheetMetadata(k - 1, readable.sheets[k], options).sheet]
        /\ metadata.Styles =
              IF options.IncludeStyles THEN extractUniqueStyles(readable).styles ELSE EmptyMap

\* A finished default-flag run on a workbook whose properties cannot be read:
\* names, sheets and styles are there
C21_Witness ==
    /\ pc = "done"
    /\ file.propsErr
    /\ file.props.Title = "Report"
    /\ metadata.Properties.Title = ""
    /\ metadata.DefinedNames # <<>>
    /\ Len(metadata.Sheets) = 2
    /\ DOMAIN metadata.Styles = {1, 2}

\* The Metadata one Extract call on workbook f gives when nothing else runs
ExtractAlone(f, opts, t) ==
    LET props == extractDocumentProperties(f) IN
    [Filename |-> f.filename,
     Properties |-> IF props.err = NoError THEN props.v ELSE ZeroProperties,
     Sheets |-> [k \in 1..Len(f.sheets) |-> extractSheetMetadata(k - 1, f.sheets[k], opts).sheet],
     DefinedNames |-> IF opts.IncludeDefinedNames THEN extractDefinedNames(f) ELSE <<>>,
     Styles |-> IF opts.IncludeStyles THEN extractUniqueStyles(f).styles ELSE EmptyMap,
     ExtractedAt |-> t]

\* C22: Extract runs on separate Extractor instances, interleaved in any
\* order, each give the Metadata of the run alone, each with its own style
\* cache; a step of one run leaves the state of every other run as it was.
C22_RunsIndependent ==
    /\ [](\A i \in DOMAIN runs :
            /\ runs[i].pc = "done" =>
                  runs[i].metadata = ExtractAlone(runs[i].file, runs[i].options, now)
            /\ runs[i].cache.processed \subseteq
                  {runs[i].cache.decoded[k] : k \in 1..Len(runs[i].cache.decoded)})
    /\ [][Cardinality({i \in DOMAIN runs : runs'[i] # runs[i]}) <= 1]_vars

\* Both runs finished on workbooks that carry style 1; the second run began
\* its style scan after the first had decoded style 1, and decoded it itself
C22_Witness ==
    /\ \A i \in DOMAIN runs : runs[i].pc = "done"
    /\ Len(runs) >= 2
    /\ runs[1].file # runs[2].file
    /\ 1 \in DOMAIN runs[1].metadata.Styles
    /\ 1 \in DOMAIN runs[2].metadata.Styles
    /\ runs[2].cache.decoded # <<>>

\* The dimensions the rows of a source sheet call for; a sheet whose rows
\* cannot be read has no used row
DimensionsOf(sheet) ==
    LET rows == IF sheet.rowsErr THEN <<>> ELSE sheet.rows
        longest == maxLen(rows, 1, 0)
    IN  IF Len(rows) = 0 \/ longest = 0
        THEN [StartCell |-> "A1", EndCell |-> "A1", RowCount |-> 0, ColCount |-> 0]
        ELSE [StartCell |-> "A1",
              EndCell |-> ColumnNumberToName(longest) \o ToString(Len(rows)),
              RowCount |-> Len(rows), ColCount |-> longest]

\* C23: in every sheet record Extract emits, RowCount and ColCount are not
\* negative and are zero together, then with StartCell = EndCell = "A1";
\* otherwise StartCell is "A1", RowCount the number of used rows, ColCount the
\* length of the longest row and EndCell the column letter of ColCount
\* followed by RowCount; also when the rows of the sheet cannot be read.
C23_DimensionsConsistent ==
    \A i \in 1..Len(metadata.Sheets) :
        LET rec == metadata.Sheets[i]
            d == rec.Dimensions
        IN  /\ d.RowCount >= 0 /\ d.ColCount >= 0
            /\ d.RowCount = 0 <=> d.ColCount = 0
            /\ d.RowCount = 0 => d.StartCell = "A1" /\ d.EndCell = "A1"
            /\ d = DimensionsOf(file.sheets[rec.Index + 1])

\* C24: Metadata.Sheets lists the records in the order of the workbook's
\* sheet list, the Index of each is the zero-based position of its sheet in
\* that list, Index is strictly increasing along the sequence and no two
\* records share a name.
C24_SheetOrderAndIndex ==
    /\ \A k \in 1..Len(metadata.Sheets) :
          /\ metadata.Sheets[k].Index \in 0..(Len(file.sheets) - 1)
          /\ metadata.Sheets[k].Name = file.sheets[metadata.Sheets[k].Index + 1].name
    /\ \A k, l \in 1..Len(metadata.Sheets) :
          k < l => /\ metadata.Sheets[k].Index < metadata.Sheets[l].Index
                   /\ metadata.Sheets[k].Name # metadata.Sheets[l].Name
    /\ pc = "done" => \A i \in 1..Len(file.sheets) :
          ~file.sheets[i].rowsErr =>
              \E k \in 1..Len(metadata.Sheets) : metadata.Sheets[k].Index = i - 1

\* A finished run over two sheets, both emitted
C24_Witness ==
    /\ pc = "done"
    /\ Len(file.sheets) = 2
    /\ Len(metadata.Sheets) = 2
    /\ metadata.Sheets[1].Index = 0 /\ metadata.Sheets[1].Name = "Sheet1"
    /\ metadata.Sheets[2].Index = 1 /\ metadata.Sheets[2].Name = "Sheet2"

\* The cell record a non-empty source cell at (r, c) calls for, each field
\* whose query fails left absent
RecordExpected(cell, r, c) ==
    [Address |-> ColumnNumberToName(c) \o ToString(r),
     Value |-> cell.value,
     Formula |-> IF "GetCellFormula" \in cell.fails THEN "" ELSE cell.formula,
     StyleID |-> IF "GetCellStyle" \in cell.fails THEN 0 ELSE cell.style,
     Type |-> IF "GetCellType" \in cell.fails THEN 0 ELSE cell.type,
     Hyperlink |-> IF "GetCellHyperLink" \in cell.fails \/ cell.link = "" THEN NilPtr
                   ELSE Ptr([Link |-> cell.link])]

RECURSIVE ImagesExpected(_, _)
\* One <<address, bytes>> per picture of every address that resolves, in
\* enumeration order
ImagesExpected(pics, i) ==
    IF i > Len(pics) THEN <<>>
    ELSE (IF pics[i].err THEN <<>>
          ELSE [k \in 1..Len(pics[i].pictures) |-> <<pics[i].cell, pics[i].pictures[k].File>>])
         \o ImagesExpected(pics, i + 1)

\* C25: a failing formula, style, type or hyperlink query of a non-empty cell
\* leaves only that field of its record absent, and a failing GetPictures of
\* one anchored address drops only the images of that address: every picture
\* of every other address gives one record, in enumeration order.
C25_QueryFailureLocal ==
    \A k \in 1..Len(metadata.Sheets) :
        LET rec == metadata.Sheets[k]
            sheet == file.sheets[rec.Index + 1]
            expected == ImagesExpected(sheet.pics, 1)
        IN  /\ (~sheet.rowsErr /\ options.IncludeCellData /\ options.MaxCellsPerSheet = 0) =>
                  \A r \in 1..Len(sheet.rows) : \A c \in 1..Len(sheet.rows[r]) :
                      sheet.rows[r][c].value # "" =>
                          \E n \in 1..Len(rec.Cells) :
                              rec.Cells[n] = RecordExpected(sheet.rows[r][c], r, c)
            /\ options.IncludeImages =>
                  /\ Len(rec.Images) = Len(expected)
                  /\ \A n \in 1..Len(expected) :
                        /\ rec.Images[n].Cell = expected[n][1]
                        /\ rec.Images[n].File = expected[n][2]

\* The style and hyperlink queries of A1 failed and its record is there with
\* its formula and type; GetPictures failed for C3 and the picture of the
\* address after it was still extracted
C25_Witness ==
    /\ pc = "done"
    /\ file.sheets[1].rows[1][1].fails = {"GetCellStyle", "GetCellHyperLink"}
    /\ Len(metadata.Sheets[1].Cells) = 2
    /\ metadata.Sheets[1].Cells[1].Formula = "F2"
    /\ metadata.Sheets[1].Cells[1].StyleID = 0
    /\ metadata.Sheets[1].Cells[1].Hyperlink = NilPtr
    /\ Len(file.sheets[1].pics) = 2
    /\ file.sheets[1].pics[1].err /\ ~file.sheets[1].pics[2].err
    /\ Len(metadata.Sheets[1].Images) = 1

\* The Metadata the flags of the extract command call for
FlagMetadata == ExtractAlone(file, flagOptions(cmd.flags), now)

\* C26: the --max-cells, --no-styles and --no-images flags govern the
\* metadata written to the file named by --output as they govern the metadata
\* printed without it: with --max-cells M > 0 no sheet of the written file
\* has more than M cells, and with --no-styles the written file has no styles.
C26_FlagsGovernFile ==
    /\ \A n \in 1..Len(fsys.files) :
          LET written == fsys.files[n].data.of IN
          cmd.stage \in {"saving", "returned"} =>
             /\ written = FlagMetadata
             /\ cmd.flags.maxCells > 0 =>
                   \A k \in 1..Len(written.Sheets) :
                       Len(written.Sheets[k].Cells) <= cmd.flags.maxCells
             /\ cmd.flags.noStyles => written.Styles = EmptyMap
             /\ cmd.flags.noImages =>
                   \A k \in 1..Len(written.Sheets) : written.Sheets[k].Images = <<>>
    /\ \A n \in 1..Len(cmd.stdout) :
          cmd.stdout[n].kind = "json" => cmd.stdout[n].of = FlagMetadata

\* What is printed without --output follows the flags
C26_PrintedFollowsFlags ==
    \A n \in 1..Len(cmd.stdout) :
        cmd.stdout[n].kind = "json" =>
            /\ cmd.flags.output = <<>>
            /\ cmd.stdout[n].of = FlagMetadata
            /\ cmd.flags.noStyles => cmd.stdout[n].of.Styles = EmptyMap

\* The *.xlsx files directly inside the directory, in the order of the names
ExcelFilesInside == SelectSeq(cmd.entries, LAMBDA e : ~e.isDir /\ isExcelPath(e.name))

\* The line the search owes for a file: the error, the match, or none
LineOwed(entry) ==
    IF entry.openErr THEN <<Line(<<"Error processing ", Cat(entry.name)>>)>>
    ELSE IF searchInMetadata(ExtractAlone(entry.book, DefaultOptions, now),
                             cmd.flags.pattern)
         THEN <<Line(<<"Match found in: ", Cat(entry.name)>>)>>
         ELSE <<>>

RECURSIVE LinesOwed(_, _)
LinesOwed(files, i) ==
    IF i > Len(files) THEN <<>> ELSE LineOwed(files[i]) \o LinesOwed(files, i + 1)

\* C27: the search command without --recursive examines every *.xlsx file
\* directly inside the directory, prints a match line for exactly the files
\* in which a sheet name or a cell text contains the pattern, reports and
\* skips the files that fail to open, and returns without error or crash
\* however many files there are.
C27_FlatSearchCompletes ==
    (cmd.stage # "none" /\ ~cmd.flags.recursive /\ cmd.flags.pattern # <<>>) =>
        /\ cmd.stage # "panicked"
        /\ cmd.err = <<>>
        /\ cmd.stage = "returned" => cmd.stdout = LinesOwed(ExcelFilesInside, 1)

\* The recursive search returns with the lines owed for the files inside
C27_RecursiveSearchCompletes ==
    (cmd.stage # "none" /\ cmd.flags.recursive /\ cmd.flags.pattern # <<>>) =>
        /\ cmd.stage # "panicked"
        /\ cmd.stage = "returned" => cmd.stdout = LinesOwed(ExcelFilesInside, 1)

\* The Metadata the Extract calls before the running one returned: those of
\* the plain calls and those inside ExtractToJSON, ExtractToGO, ExtractToFile
EarlierResults ==
    {results[i] : i \in 1..Len(results)}
    \cup {jsonOut[i].of : i \in 1..Len(jsonOut)}
    \cup {goOut[i].of : i \in 1..Len(goOut)}
    \cup {fsys.files[i].data.of : i \in {j \in 1..Len(fsys.files) :
                                          fsys.files[j].data.kind = "json"}}

SameButExtractedAt(a, b) == [a EXCEPT !.ExtractedAt = ZeroTime] = [b EXCEPT !.ExtractedAt = ZeroTime]

\* C28: Extract, ExtractToJSON, ExtractToGO and ExtractToFile never close the
\* source handle and never change the options; every one of them, in any
\* sequence on the Extractor, succeeds (ExtractToFile up to the errors of the
\* output path and the disk); two Extract calls return Metadata equal in every
\* field but ExtractedAt.
C28_UsableUntilClose ==
    /\ [](/\ handle = OpenHandle
          /\ \A i \in 1..Len(jsonOut) : jsonOut[i].err = NoError
          /\ \A i \in 1..Len(goOut) : goOut[i].err = NoError
          /\ ret # <<>> => ret[1] \in {"unsupported ", "mkdir ", "open "}
          /\ pc = "done" =>
                /\ Len(metadata.Sheets) = Len(file.sheets)
                /\ \A m \in EarlierResults : SameButExtractedAt(m, metadata))
    /\ [][options' = options /\ handle' = handle /\ file' = file]_vars

\* The second Extract has returned an hour after a first plain Extract call
C28_Witness ==
    /\ pc = "done"
    /\ Len(results) = 1
    /\ results[1].ExtractedAt # metadata.ExtractedAt
    /\ Len(metadata.Sheets) = 2
    /\ metadata.Styles # EmptyMap

\* C29: with IncludeStyles and IncludeCellData set, whatever the cell cap,
\* every non-zero StyleID of an emitted cell record is a key of
\* Metadata.Styles unless its decode failed: the style scan covers every cell
\* position of the used rows of every sheet and is not cut short by the cap.
C29_EmittedStylesResolved ==
    (pc = "done" /\ options.IncludeStyles /\ options.IncludeCellData) =>
        /\ \A k \in 1..Len(metadata.Sheets) :
              \A n \in 1..Len(metadata.Sheets[k].Cells) :
                  LET styleID == metadata.Sheets[k].Cells[n].StyleID IN
                  styleID # 0 => styleID \in DOMAIN metadata.Styles \/ styleID \in file.styleErr
        /\ DOMAIN metadata.Styles = (CarriedStyles \ {0}) \ file.styleErr

\* The cap cut the cells of the sheet to one record of style 1, and the
\* styles 1 and 2 of the positions after it were still decoded
C29_Witness ==
    /\ pc = "done"
    /\ options.IncludeStyles /\ options.IncludeCellData
    /\ options.MaxCellsPerSheet = 1
    /\ Len(metadata.Sheets) = 1
    /\ Len(file.sheets[1].rows) = 2
    /\ Len(metadata.Sheets[1].Cells) = 1
    /\ metadata.Sheets[1].Cells[1].StyleID = 1
    /\ DOMAIN metadata.Styles = {1, 2}

\* C30: ExtractToFile on an output path with an unsupported extension returns
\* the error before it issues a query on the source handle, makes a directory
\* or writes a file: the file system and the Extractor are as before the call.
C30_UnsupportedTouchesNothing ==
    /\ [](pc = "returned" /\ call # NoCall /\ call.ext \notin {".json", ".go"} =>
             /\ ret = <<"unsupported ", call.ext, " file">>
             /\ \A i \in 1..Len(fsys.files) : fsys.files[i].path # call.path
             /\ \A i \in 1..Len(fsys.ops) :
                   fsys.ops[i].op = "WriteFile" => fsys.ops[i].path # Cat(call.path))
    /\ [][pc = "file" /\ pc' = "returned" =>
             UNCHANGED <<file, options, handle, fsys, metadata, idx, decoded, queried,
                         goOut, jsonOut, results>>]_vars

\* The call on m.txt returned the error after an earlier call on the same
\* Extractor had written its file
C30_Witness ==
    /\ pc = "returned"
    /\ call.path = <<"m", ".", "txt">>
    /\ ret = <<"unsupported ", ".txt", " file">>
    /\ Len(fsys.files) = 1
    /\ metadata # NoMetadata

=============================================================================
